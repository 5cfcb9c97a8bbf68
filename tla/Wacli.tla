------------------------------- MODULE Wacli --------------------------------
(***************************************************************************)
(* The store of wacli and the processes that use it: the children that the *)
(* live worker spawns, one call after the other, each with a timeout of its *)
(* parent; and the preflight, which checks the store, moves a malformed     *)
(* cache away and warms the cache before the worker starts. What wacli      *)
(* itself does to its store is external, as SQLite's handling of side files.*)
(***************************************************************************)
EXTENDS Integers

CONSTANTS
    Configs,   \* configurations: are chats required, is the cache warmed?
    MaxFaults  \* bound: damaged files, checks that break off, dead preflights

VARIABLES
    config,    \* VIJI_WACLI_PREFLIGHT_REQUIRED_CHAT_QUERIES and _SYNC_ENABLED
    session,   \* session.db
    cache,     \* what wacli.db holds, Missing or Malformed
    log,       \* its side files: none, its own, stale ones, or lost ones
    check,     \* where the preflight is
    ready,     \* has it completed?
    uncounted, \* history: the last count of the cache's rows failed
    call,      \* the promise of runWacliProcess
    exit,      \* what it resolves to
    procs,     \* the worker's wacli processes that are alive
    faults     \* counts faults, up to MaxFaults

store == <<config, session, cache, log>>
preflight == <<check, ready, uncounted>>
calls == <<call, exit, procs>>
vars == <<store, preflight, calls, faults>>

Required == config.required

\* A cache without tables, without rows, without a required chat, with all of them.
Malformed == -1
Missing == 0
Bare == 1
Empty == 2
Rows == 3
Full == 4

Init ==
    /\ config \in Configs
    /\ session \in {"missing", "malformed", "ok"}
    /\ cache \in Malformed..Full
    /\ log \in IF cache = Missing THEN {"none"} ELSE {"none", "own"}
    /\ check = "session" /\ ready = FALSE /\ uncounted = FALSE
    /\ call = "none" /\ exit = "none" /\ procs = 0
    /\ faults = 0

\* External: a sync adds to the cache. It creates one that is missing, and SQLite
\* discards side files that it finds without their database.
Fill ==
    /\ cache # Malformed
    /\ cache' \in cache..Full
    /\ log' \in IF cache' = Missing THEN {log} ELSE {"none", "own"}

\* External: the disk is unplugged while it is written to, or the owner logs in.
Damage ==
    /\ faults < MaxFaults
    /\ faults' = faults + 1
    /\ \/ cache # Missing /\ cache' = Malformed /\ UNCHANGED session
       \/ session # "missing" /\ session' = "malformed" /\ UNCHANGED cache
    /\ UNCHANGED <<config, log, preflight, calls>>

Login ==
    /\ session # "ok" /\ session' = "ok"
    /\ UNCHANGED <<config, cache, log, preflight, calls, faults>>
-----------------------------------------------------------------------------
(* runWacliProcess *)

Spawn ==
    /\ call = "none"
    /\ call' = "running" /\ procs' = procs + 1
    /\ UNCHANGED <<store, preflight, exit, faults>>

\* Mutant: the promise resolves when the time is up.
ExpireMutant ==
    /\ call = "running"
    /\ call' = "closed" /\ exit' = "failed"
    /\ UNCHANGED <<store, preflight, procs, faults>>

\* The parent's timeout: SIGTERM, and half a second later SIGKILL.
Expire ==
    /\ call = "running"
    /\ call' = "terminated"
    /\ UNCHANGED <<store, preflight, exit, procs, faults>>

\* Mutant: no second signal.
KillMutant ==
    /\ call = "terminated"
    /\ UNCHANGED vars

Kill ==
    /\ call = "terminated"
    /\ call' = "killed"
    /\ UNCHANGED <<store, preflight, exit, procs, faults>>

\* The promise resolves when the process has closed, whatever made it close. Its
\* exit code counts only if the time was not up; what it wrote stays.
Close(syncs) ==
    /\ call \in {"running", "terminated", "killed"}
    /\ \E e \in {"ok", "failed"} :
          /\ e = "ok" => call = "running" /\ session = "ok" /\ cache # Malformed
          /\ exit' = e
    /\ call' = "closed" /\ procs' = procs - 1
    /\ \/ UNCHANGED <<cache, log>>
       \/ syncs /\ session = "ok" /\ Fill
    /\ UNCHANGED <<config, session, preflight, faults>>

\* The worker goes on with the result.
Collect ==
    /\ call = "closed"
    /\ call' = "none" /\ exit' = "none"
    /\ UNCHANGED <<store, preflight, procs, faults>>
-----------------------------------------------------------------------------
(* preflightWacliStore *)

\* The worker's container is stopped, and what runs in it.
Begin ==
    /\ check' = "session" /\ ready' = FALSE /\ uncounted' = FALSE
    /\ call' = "none" /\ exit' = "none" /\ procs' = 0
    /\ UNCHANGED <<store, faults>>

To(s) == check' = s /\ UNCHANGED <<ready, faults>>
Fails == check' = "failed" /\ UNCHANGED <<ready, faults>>
Completes == check' = "none" /\ ready' = TRUE /\ UNCHANGED faults

\* A check, a count or a query may also run into its time limit or a lock.
BreaksOff == faults < MaxFaults /\ faults' = faults + 1

CheckSession ==
    /\ check = "session"
    /\ \/ session = "ok" /\ To("cache")
       \/ session # "ok" /\ Fails
       \/ BreaksOff /\ check' = "failed" /\ UNCHANGED ready
    /\ UNCHANGED <<store, calls, uncounted>>

\* Everything but "ok" and "missing" is taken for malformed.
CheckCache ==
    /\ check = "cache"
    /\ \/ cache = Missing /\ To("warm")
       \/ cache = Malformed /\ To("move")
       \/ cache \in Bare..Full /\ To("rows")
       \/ cache # Missing /\ BreaksOff /\ check' = "move" /\ UNCHANGED ready
    /\ UNCHANGED <<store, calls, uncounted>>

\* A cache whose rows cannot be counted is not an empty one, whatever it holds.
CountRows(at, next, lacking) ==
    /\ check = at
    /\ \/ cache = Empty /\ To(lacking) /\ uncounted' = FALSE
       \/ cache \in {Rows, Full} /\ To(next) /\ uncounted' = FALSE
       \/ cache = Bare /\ To(next) /\ uncounted' = TRUE
       \/ BreaksOff /\ check' = next /\ uncounted' = TRUE /\ UNCHANGED ready
    /\ UNCHANGED <<store, calls>>

\* Mutant: a query that breaks off is skipped, like no query at all.
CheckChatsMutant(at, lacking) ==
    /\ check = at
    /\ \/ (Required => cache = Full) /\ Completes
       \/ Required /\ cache # Full /\ To(lacking)
       \/ Required /\ BreaksOff /\ check' = "none" /\ ready' = TRUE
    /\ UNCHANGED <<store, calls, uncounted>>

\* A query that breaks off is one that found no chat.
CheckChats(at, lacking) ==
    /\ check = at
    /\ \/ (Required => cache = Full) /\ Completes
       \/ Required /\ cache # Full /\ To(lacking)
       \/ Required /\ BreaksOff /\ check' = lacking /\ UNCHANGED ready
    /\ UNCHANGED <<store, calls, uncounted>>

LookInside == CountRows("rows", "chats", "warm") \/ CheckChats("chats", "warm")

\* Mutant: the database is moved after its side files.
MoveMutant ==
    /\ \/ /\ check = "move" /\ To("moving")
          /\ log' = IF log = "own" THEN "lost" ELSE "none"
          /\ UNCHANGED cache
       \/ check = "moving" /\ To("warm") /\ cache' = Missing /\ log' = "none"
    /\ UNCHANGED <<config, session, calls, uncounted>>

\* The cache goes to the backup, first the database and then its side files.
Move ==
    /\ \/ /\ check = "move" /\ To("moving")
          /\ cache' = Missing
          /\ log' = IF log = "own" THEN "stale" ELSE log
       \/ check = "moving" /\ To("warm") /\ log' = "none" /\ UNCHANGED cache
    /\ UNCHANGED <<config, session, calls, uncounted>>

\* A bounded sync, whose exit only decides what is logged: the cache is looked at
\* again in either case.
WarmCache ==
    /\ check = "warm"
    /\ IF config.warmup THEN To("verify") /\ (Fill \/ UNCHANGED <<cache, log>>)
       ELSE Completes /\ UNCHANGED <<cache, log>>
    /\ UNCHANGED <<config, session, calls, uncounted>>

Verify ==
    /\ check = "verify"
    /\ \/ cache \in Bare..Full /\ To("recount")
       \/ cache \in {Malformed, Missing} /\ Fails
       \/ BreaksOff /\ check' = "failed" /\ UNCHANGED ready
    /\ UNCHANGED <<store, calls, uncounted>>

LookAgain ==
    Verify \/ CountRows("recount", "recheck", "failed") \/ CheckChats("recheck", "failed")

\* The preflight is interrupted.
Die ==
    /\ check \notin {"none", "failed"} /\ BreaksOff
    /\ check' = "failed" /\ UNCHANGED ready
    /\ UNCHANGED <<store, calls, uncounted>>

Preflight ==
    CheckSession \/ CheckCache \/ LookInside \/ Move \/ WarmCache \/ LookAgain \/ Die
-----------------------------------------------------------------------------
TypeOK ==
    /\ config \in Configs
    /\ session \in {"missing", "malformed", "ok"}
    /\ cache \in Malformed..Full
    /\ log \in {"none", "own", "stale", "lost"}
    /\ check \in {"none", "failed", "session", "cache", "rows", "chats", "move", "moving",
                  "warm", "verify", "recount", "recheck"}
    /\ ready \in BOOLEAN /\ uncounted \in BOOLEAN
    /\ call \in {"none", "running", "terminated", "killed", "closed"}
    /\ exit \in {"none", "ok", "failed"}
    /\ procs \in Nat
    /\ faults \in 0..MaxFaults
=============================================================================
