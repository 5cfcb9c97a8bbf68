-------------------------- MODULE MessageLifecycle --------------------------
(***************************************************************************)
(* What the live automation promises of each message, without saying how:  *)
(* no cycle, no policy, no statements, no interruptions. A message is run  *)
(* once. If its run drafts something, that may offer files and be queued   *)
(* as a text, in this order: the offer is complete before the text that    *)
(* lists it is queued, and nothing is added to either once a file was      *)
(* confirmed. A file is queued once, out of an offer that is still         *)
(* pending, while another message is unhandled that may have confirmed it. *)
(* What was sent or refused is not queued again.                           *)
(* Automation implements this specification, interrupted or not.           *)
(***************************************************************************)
EXTENDS Naturals

CONSTANTS Messages, Resources

VARIABLES run,      \* the run of a message, "none" before it has one
          offer,    \* the state of the offer it led to, "none" before
          offered,  \* the files of that offer
          reply,    \* the job of its own reply or prompt
          file      \* the jobs of the files it asked for

lifecycleVars == <<run, offer, offered, reply, file>>

Outcomes == {"sending", "sent", "blocked"}

NoFileQueued(m) == \A r \in Resources : file[m][r] = "absent"

Init ==
    /\ run = [m \in Messages |-> "none"]
    /\ offer = [m \in Messages |-> "none"]
    /\ offered = [m \in Messages |-> {}]
    /\ reply = [m \in Messages |-> "absent"]
    /\ file = [m \in Messages |-> [r \in Resources |-> "absent"]]

Begin(m) ==
    /\ run[m] = "none"
    /\ run' = [run EXCEPT ![m] = "started"]
    /\ UNCHANGED <<offer, offered, reply, file>>

End(m) ==
    /\ run[m] = "started"
    /\ \E s \in {"drafted", "blocked", "failed"} : run' = [run EXCEPT ![m] = s]
    /\ UNCHANGED <<offer, offered, reply, file>>

\* A draft may still be given up while nothing came of it.
GiveUp(m) ==
    /\ run[m] = "drafted"
    /\ offer[m] = "none" /\ reply[m] = "absent" /\ NoFileQueued(m)
    /\ run' = [run EXCEPT ![m] = "failed"]
    /\ UNCHANGED <<offer, offered, reply, file>>

Offer(m) ==
    /\ run[m] = "drafted"
    /\ offer[m] = "none" /\ reply[m] = "absent" /\ NoFileQueued(m)
    /\ offer' = [offer EXCEPT ![m] = "pending"]
    /\ UNCHANGED <<run, offered, reply, file>>

AddOption(m, r) ==
    /\ offer[m] = "pending" /\ reply[m] = "absent" /\ NoFileQueued(m)
    /\ offered' = [offered EXCEPT ![m] = @ \cup {r}]
    /\ UNCHANGED <<run, offer, reply, file>>

QueueReply(m) ==
    /\ run[m] = "drafted"
    /\ offer[m] = "none" \/ (offer[m] = "pending" /\ offered[m] # {})
    /\ reply[m] = "absent" /\ NoFileQueued(m)
    /\ reply' = [reply EXCEPT ![m] = "queued"]
    /\ UNCHANGED <<run, offer, offered, file>>

QueueFile(m, r) ==
    /\ offer[m] = "pending" /\ r \in offered[m]
    /\ file[m][r] = "absent"
    /\ \E k \in Messages \ {m} : run[k] = "none"
    /\ file' = [file EXCEPT ![m][r] = "queued"]
    /\ UNCHANGED <<run, offer, offered, reply>>

Resolve(m) ==
    /\ offer[m] = "pending"
    /\ \E r \in offered[m] : file[m][r] # "absent"
    /\ offer' = [offer EXCEPT ![m] = "resolved"]
    /\ UNCHANGED <<run, offered, reply, file>>

SettleReply(m) ==
    /\ reply[m] = "queued"
    /\ \E s \in Outcomes : reply' = [reply EXCEPT ![m] = s]
    /\ UNCHANGED <<run, offer, offered, file>>

SettleFile(m, r) ==
    /\ file[m][r] = "queued"
    /\ \E s \in Outcomes : file' = [file EXCEPT ![m][r] = s]
    /\ UNCHANGED <<run, offer, offered, reply>>

Next ==
    \E m \in Messages :
        \/ Begin(m) \/ End(m) \/ GiveUp(m)
        \/ Offer(m) \/ Resolve(m) \/ QueueReply(m) \/ SettleReply(m)
        \/ \E r \in Resources : AddOption(m, r) \/ QueueFile(m, r) \/ SettleFile(m, r)

Spec == Init /\ [][Next]_lifecycleVars
=============================================================================
