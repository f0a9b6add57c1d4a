------------------------------ MODULE ModuleCache ------------------------------
(***************************************************************************)
(* Remote modules in the Rust engine: what one import loads (loader.rs,    *)
(* network.rs "module" and "send"), through the memory that the engines of *)
(* a process share and the directory that processes share (cache.rs).      *)
(*                                                                         *)
(* A module's source is named by the time at which it was requested.  The  *)
(* server is external: its redirects, its failures and its Cache-Control   *)
(* headers, of which a policy is what "freshness" makes.  A process may    *)
(* die at any moment; files keep what was written.  A temporary file has   *)
(* a name of its own (process id and counter), so only its writer sees it. *)
(***************************************************************************)
EXTENDS Integers, FiniteSets

CONSTANTS
  Urls,
  Redirects,    \* where the URLs that redirect lead
  Lifetimes,    \* the lifetimes that servers declare, besides "never" and "process"
  Loads,        \* imports
  Processes,
  Process,      \* the process that each import runs in
  Allowed,      \* the URLs that the network policy of its engine allows
  MaxHops,      \* MAX_REDIRECTS
  MaxTime,      \* bound on the clock
  MaxCrashes    \* bound on processes that die

\* What the constants satisfy.
CacheAssumption ==
  /\ DOMAIN Redirects \subseteq Urls /\ \A u \in DOMAIN Redirects : Redirects[u] \in Urls
  /\ Process \in [Loads -> Processes] /\ Allowed \in [Loads -> SUBSET Urls]
  /\ Lifetimes \subseteq Nat \ {0} /\ {MaxHops, MaxTime, MaxCrashes} \subseteq Nat

VARIABLES
  now,      \* the clock
  memory,   \* MEMORY of every process
  disk,     \* the files of the cache directory, by the URL their name is made of
  load,     \* what every import does
  life      \* how often each process has died

cacheVars == <<now, memory, disk, load, life>>

NoModule == [url |-> "none"]

Never == [kind |-> "never", until |-> 0]
ForProcess == [kind |-> "process", until |-> 0]
Until(time) == [kind |-> "until", until |-> time]

\* History: `by' is the import, in its process's life, that requested the source.
Module(url, freshness, by) ==
  [url |-> url, source |-> now, whole |-> TRUE, freshness |-> freshness, by |-> by]

Fresh(m) ==
  /\ m # NoModule
  /\ m.freshness.kind = "process" \/ (m.freshness.kind = "until" /\ now < m.freshness.until)

Self(l) == [load |-> l, process |-> Process[l], life |-> life[Process[l]]]

CacheInit ==
  /\ now = 0
  /\ memory = [p \in Processes |-> [u \in Urls |-> NoModule]]
  /\ disk = [u \in Urls |-> NoModule]
  /\ load = [l \in Loads |-> [pc |-> "idle", url |-> "none", at |-> "none", hops |-> 0,
                              module |-> NoModule, looked |-> 0]]
  /\ life = [p \in Processes |-> 0]

Goto(l, pc) == load' = [load EXCEPT ![l].pc = pc]
Has(l, pc, m) == load' = [load EXCEPT ![l].pc = pc, ![l].module = m, ![l].looked = now]

\* Network::check
Checked(l, url) == url \in Allowed[l]

-----------------------------------------------------------------------------
(* One import (network.rs "module") *)

\* Up to spawn_blocking, on the engine's own thread.
Import(l, url) ==
  /\ load[l].pc = "idle"
  /\ LET m == memory[Process[l]][url]
         entry == [load[l] EXCEPT !.url = url, !.at = url]
         served == [entry EXCEPT !.module = m, !.looked = now]
     IN load' = [load EXCEPT ![l] =
          IF ~Checked(l, url) THEN [entry EXCEPT !.pc = "refused"]
          ELSE IF ~Fresh(m) THEN [entry EXCEPT !.pc = "reading"]
          ELSE [served EXCEPT !.pc = IF m.url \in Allowed[l] THEN "served" ELSE "refused"]]
  /\ UNCHANGED <<now, memory, disk, life>>

Read(l) ==
  /\ load[l].pc = "reading"
  /\ IF Fresh(disk[load[l].url])
     THEN Has(l, "loaded", disk[load[l].url])
     ELSE Goto(l, "sending")
  /\ UNCHANGED <<now, memory, disk, life>>

\* One request of "send"; the policy applies to every redirect.
Redirected(l) ==
  /\ load[l].pc = "sending" /\ load[l].at \in Allowed[l] \cap DOMAIN Redirects
  /\ IF load[l].hops < MaxHops
     THEN load' = [load EXCEPT ![l].at = Redirects[load[l].at], ![l].hops = @ + 1]
     ELSE Goto(l, "failed")
  /\ UNCHANGED <<now, memory, disk, life>>

\* Refused by the policy, by the network or by the server, or not UTF-8.
SendFails(l) ==
  /\ load[l].pc = "sending"
  /\ Goto(l, IF load[l].at \in Allowed[l] THEN "failed" ELSE "refused")
  /\ UNCHANGED <<now, memory, disk, life>>

\* Only what has a lifetime is written.
Persistent(freshness) == freshness.kind = "until"

Receive(l, freshness) ==
  /\ load[l].pc = "sending" /\ load[l].at \in Allowed[l] \ DOMAIN Redirects
  /\ Has(l, IF Persistent(freshness) THEN "creating" ELSE "loaded",
         Module(load[l].at, freshness, Self(l)))
  /\ UNCHANGED <<now, memory, disk, life>>

\* The header and part of the source are in the temporary file.
Created_inPlace(l) == [disk EXCEPT ![load[l].url] = [load[l].module EXCEPT !.whole = FALSE]]
Created(l) == disk

Create(l) ==
  /\ load[l].pc = "creating"
  /\ disk' = Created(l)
  /\ Goto(l, "writing")
  /\ UNCHANGED <<now, memory, life>>

Rename(l) ==
  /\ load[l].pc = "writing"
  /\ disk' = [disk EXCEPT ![load[l].url] = load[l].module]
  /\ Goto(l, "loaded")
  /\ UNCHANGED <<now, memory, life>>

\* Creating, writing or renaming fails; the module stays usable.
WriteFails(l) ==
  /\ load[l].pc \in {"creating", "writing"}
  /\ Goto(l, "loaded")
  /\ UNCHANGED <<now, memory, disk, life>>

\* ModuleCache::remember
Remembered(url, m, before) ==
  IF m.freshness.kind = "never" THEN before ELSE [before EXCEPT ![url] = m]

\* Mutant: the module that a cache answers with is not checked.
FinalAllowed_unchecked(l) == TRUE

\* The module that redirects and caches led to may be used by this engine.
FinalAllowed(l) == load[l].module.url \in Allowed[l]

\* The blocking task ends, and the import goes on.
Serve(l) ==
  /\ load[l].pc = "loaded"
  /\ IF FinalAllowed(l)
     THEN /\ memory' = [memory EXCEPT ![Process[l]] = Remembered(load[l].url, load[l].module, @)]
          /\ Goto(l, "served")
     ELSE Goto(l, "refused") /\ UNCHANGED memory
  /\ UNCHANGED <<now, disk, life>>

\* The engine is closed while the task ran.
Drop(l) ==
  /\ load[l].pc = "loaded"
  /\ Goto(l, "failed")
  /\ UNCHANGED <<now, memory, disk, life>>

-----------------------------------------------------------------------------

\* A process dies and starts again, with a temporary file left behind or not.
Crash(p) ==
  /\ \A q \in Processes : life[q] < MaxCrashes
  /\ life' = [life EXCEPT ![p] = @ + 1]
  /\ memory' = [memory EXCEPT ![p] = [u \in Urls |-> NoModule]]
  /\ load' = [l \in Loads |-> IF Process[l] = p /\ load[l].pc # "idle"
                              THEN [load[l] EXCEPT !.pc = "failed"] ELSE load[l]]
  /\ UNCHANGED <<now, disk>>

Tick == now < MaxTime /\ now' = now + 1 /\ UNCHANGED <<memory, disk, load, life>>

CacheNext ==
  \/ \E l \in Loads :
       \/ \E url \in Urls : Import(l, url)
       \/ Read(l) \/ Redirected(l) \/ SendFails(l)
       \/ \E freshness \in {Never, ForProcess} \cup {Until(now + t) : t \in Lifetimes} : Receive(l, freshness)
       \/ Create(l) \/ Rename(l) \/ WriteFails(l) \/ Serve(l) \/ Drop(l)
  \/ \E p \in Processes : Crash(p)
  \/ Tick

CacheSpec == CacheInit /\ [][CacheNext]_cacheVars

-----------------------------------------------------------------------------
(* Properties *)

\* What an import gets is a whole module that it requested itself, that is still
\* fresh when it is looked up ("max-age: reuse until this time, in this and later
\* processes"), or that its own process requested ("reuse within this process"):
\* never what was declared not to be stored, the truncated file of a process that
\* died, or what another process keeps for itself (Freshness in cache.rs).
CachedAsDeclared ==
  \A l \in Loads : load[l].pc = "served" =>
    LET m == load[l].module
    IN /\ m.whole
       /\ \/ m.by.load = l
          \/ m.freshness.kind = "until" /\ load[l].looked < m.freshness.until
          \/ m.freshness.kind = "process"
             /\ m.by.process = Process[l] /\ m.by.life = life[Process[l]]

\* "The policy applies to the requested and final URLs before any cache use"
\* (network.rs:207): a cache filled by another engine, in this process or
\* another one, gives no engine what its own policy forbids.
NetworkPolicyHolds ==
  \A l \in Loads : load[l].pc = "served" => {load[l].url, load[l].module.url} \subseteq Allowed[l]
=============================================================================
