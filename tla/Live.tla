-------------------------------- MODULE Live --------------------------------
(***************************************************************************)
(* The live stack: the worker's loop of module LiveSync, whose syncs and    *)
(* polls are the calls of module Wacli, and `stack:live:up`, which stops    *)
(* the stack, runs the preflight and starts the stack if that completed.    *)
(***************************************************************************)
EXTENDS LiveSync

CONSTANTS Configs, MaxFaults

ASSUME LiveAssumption ==
    Configs \subseteq [required : BOOLEAN, warmup : BOOLEAN] /\ MaxFaults \in Nat

VARIABLES
    config, session, cache, log, check, ready, uncounted, call, exit, procs, faults,
    stack   \* "down", "checking" or "up"

W == INSTANCE Wacli

store == <<config, session, cache, log>>
calls == <<call, exit, procs>>
wacli == <<store, check, ready, uncounted, calls, faults>>
all == <<vars, wacli, stack>>

StackInit == Init /\ W!Init /\ stack = "checking"

LiveUp ==
    /\ stack # "checking"
    /\ IF stack = "up" THEN Restart ELSE UNCHANGED vars
    /\ W!Begin
    /\ stack' = "checking"

Check == stack = "checking" /\ W!Preflight /\ UNCHANGED <<vars, stack>>

\* The commands are joined by &&.
Started ==
    /\ stack = "checking"
    /\ \/ ready /\ stack' = "up"
       \/ check = "failed" /\ stack' = "down"
    /\ UNCHANGED <<vars, wacli>>

\* The container is started again after its process died, with its children.
WorkerRestarts ==
    /\ stack = "up" /\ Restart
    /\ call' = "none" /\ exit' = "none" /\ procs' = 0
    /\ UNCHANGED <<store, check, ready, uncounted, faults, stack>>

\* A sync, and for each contact that is known the calls that list its messages.
BeginCall ==
    /\ \/ step = "syncing"
       \/ step = "polling" /\ contact < Contacts
    /\ W!Spawn
    /\ UNCHANGED vars

EndSync ==
    /\ \/ exit = "ok" /\ SyncSucceeds
       \/ exit = "failed" /\ SyncFails
    /\ W!Collect

EndList == PollNext /\ W!Collect

Without == (Decide \/ PollNext \/ PollEnds \/ CycleEnds \/ CycleThrows \/ Wake \/ StorageMissing)

Worker ==
    /\ stack = "up" /\ UNCHANGED stack
    /\ \/ BeginCall \/ EndSync \/ EndList
       \/ call = "none" /\ Without /\ UNCHANGED wacli

Child == stack = "up" /\ (W!Close(step = "syncing") \/ W!Expire \/ W!Kill) /\ UNCHANGED <<vars, stack>>

\* Assumption: nothing damages the store while the preflight looks at it.
Environment == stack # "checking" /\ (W!Damage \/ W!Login) /\ UNCHANGED <<vars, stack>>

StackNext == LiveUp \/ Check \/ Started \/ WorkerRestarts \/ Worker \/ Child \/ Environment

StackSpec == StackInit /\ [][StackNext]_all

\* The loop goes on, timers fire, and a killed process ends. Nothing makes a process
\* end that was sent no signal.
FairStack ==
    /\ StackSpec
    /\ WF_all(Worker)
    /\ WF_all(stack = "up" /\ (W!Expire \/ W!Kill) /\ UNCHANGED <<vars, stack>>)
    /\ WF_all(stack = "up" /\ call = "killed" /\ Child)
-----------------------------------------------------------------------------
(* Properties *)

\* The state is what the types of both components say.
StackTypeOK == TypeOK /\ W!TypeOK /\ stack \in {"down", "checking", "up"}

\* One wacli process at a time uses the store: a call that ran into its timeout is
\* over before the next one starts, and the preflight has the store to itself.
OneWacliAtATime == procs <= (IF stack = "up" THEN 1 ELSE 0)

\* Whenever the preflight dies, the cache in the store has its own side files:
\* never those of another one, and never without those it had.
LogStaysWithItsCache == cache # W!Missing => log \in {"none", "own"}

\* Through all its paths, whatever check breaks off, the preflight completes only with
\* a session and, if it may warm the cache, one with the required chats, or without any
\* required one with rows. The exception is a count that failed: then it completes with
\* any cache that is sound and not known to lack a required chat, even an empty one.
ReadyWhenStarted ==
    [][stack # "up" /\ stack' = "up" =>
         /\ session = "ok"
         /\ config.warmup => cache \in W!Bare..W!Full
         /\ config.warmup /\ ~uncounted => cache \in {W!Rows, W!Full}
         /\ config.warmup /\ config.required => cache = W!Full]_all

StaysUp == <>[](stack = "up")

\* As long as the stack is up the worker synchronises again and again, whatever
\* fails, throws, hangs or ignores SIGTERM.
SyncGoesOn == StaysUp => []<>(step = "syncing")

\* A sync that fails or hangs for ever does not keep a contact from being polled, as
\* the cycles between two retries poll: unless every cycle is forced to sync, or an
\* earlier contact's import ends the poll.
PollsGoOn ==
    \A c \in 1..Contacts :
        ~forced /\ (\A b \in Broken : c <= b) /\ StaysUp =>
            []<>(step = "polling" /\ contact = c)
=============================================================================
