------------------------- MODULE CompilerInfoCache -------------------------
(***************************************************************************)
(* The daemon's cache of what a compiler is (daemon/CompilerInfoCache.ts). *)
(* A lookup resolves the path and reads the time of its file, which make   *)
(* the key; the info of a key comes from the cache, from a lookup under    *)
(* way, or from probes: runs of the compiler, all at once, of which one    *)
(* that fails fails them all.  A compiler may be replaced at any time, and *)
(* an old one come back under its old key.  One path is modelled: keys of  *)
(* different paths share nothing.                                          *)
(***************************************************************************)
EXTENDS Naturals, FiniteSets

CONSTANTS Lookers,     \* who looks a compiler up
          Compilers,   \* what may be installed at the path, each with its mtime
          First,       \* the one installed at the start
          Probes,      \* required probes
          MaxChanges   \* bound: replacements of the compiler

ASSUME InfoCacheAssumption ==
    /\ First \in Compilers
    /\ Probes \in Nat \ {0}
    /\ MaxChanges \in Nat

VARIABLES
    installed,  \* the compiler at the path
    changes,
    stage,      \* of each lookup: "none", "stat", "waiting", "found", "failed"
    key,        \* of each lookup: the compiler whose mtime it read
    cached,     \* the cache: for each key the compilers its info was made from
    computing,  \* the keys of the map "pending"
    seen,       \* the compilers that the probes of a key have run
    left,       \* the probes of a key still to come
    window,     \* history: the compilers installed in the course of each lookup
    overlapped  \* history: the keys in whose probes a replacement fell

lookupVars == <<stage, key, window>>
probeVars == <<computing, seen, left>>
infoVars == <<installed, changes, lookupVars, cached, probeVars, overlapped>>

InfoInit ==
    /\ installed = First
    /\ changes = 0
    /\ stage = [c \in Lookers |-> "none"]
    /\ key = [c \in Lookers |-> First]
    /\ cached = [v \in Compilers |-> {}]
    /\ computing = {}
    /\ seen = [v \in Compilers |-> {}]
    /\ left = [v \in Compilers |-> 0]
    /\ window = [c \in Lookers |-> {}]
    /\ overlapped = {}

Waiting(v) == {c \in Lookers : stage[c] = "waiting" /\ key[c] = v}

\* Every lookup that waits for v gets its outcome.
SettleAll(v, outcome) ==
    stage' = [c \in Lookers |-> IF c \in Waiting(v) THEN outcome ELSE stage[c]]

----------------------------------------------------------------------------

\* get() is called.
Ask(c) ==
    /\ stage[c] = "none"
    /\ stage' = [stage EXCEPT ![c] = "stat"]
    /\ window' = [window EXCEPT ![c] = {installed}]
    /\ UNCHANGED <<installed, changes, key, cached, probeVars, overlapped>>

\* Mutant of KeyOf: the path alone.
KeyOfPath(v) == First

\* path:mtimeMs.
KeyOf(v) == v

\* realpath and stat are done: a hit, a share of a computation, or a new one.
Stat(c) ==
    LET v == KeyOf(installed)
    IN /\ stage[c] = "stat"
       /\ key' = [key EXCEPT ![c] = v]
       /\ stage' = [stage EXCEPT ![c] = IF cached[v] # {} THEN "found" ELSE "waiting"]
       /\ IF cached[v] # {} \/ v \in computing
          THEN UNCHANGED probeVars
          ELSE /\ computing' = computing \cup {v}
               /\ seen' = [seen EXCEPT ![v] = {}]
               /\ left' = [left EXCEPT ![v] = Probes]
       /\ UNCHANGED <<installed, changes, cached, window, overlapped>>

\* There is no compiler at the path.
StatFails(c) ==
    /\ stage[c] = "stat"
    /\ stage' = [stage EXCEPT ![c] = "failed"]
    /\ UNCHANGED <<installed, changes, key, window, cached, probeVars, overlapped>>

\* A probe runs what is at the path by now; with the last one the info is cached.
Probe(v) ==
    /\ v \in computing
    /\ left[v] > 0
    /\ left' = [left EXCEPT ![v] = @ - 1]
    /\ IF left[v] > 1
       THEN /\ seen' = [seen EXCEPT ![v] = @ \cup {installed}]
            /\ UNCHANGED <<computing, cached, stage>>
       ELSE /\ seen' = [seen EXCEPT ![v] = {}]
            /\ cached' = [cached EXCEPT ![v] = seen[v] \cup {installed}]
            /\ computing' = computing \ {v}
            /\ SettleAll(v, "found")
    /\ UNCHANGED <<installed, changes, key, window, overlapped>>

\* A required probe fails: the promise is rejected, and the key is free again.
ProbeFails(v) ==
    /\ v \in computing
    /\ computing' = computing \ {v}
    /\ seen' = [seen EXCEPT ![v] = {}]
    /\ left' = [left EXCEPT ![v] = 0]
    /\ overlapped' = overlapped \ {v}
    /\ SettleAll(v, "failed")
    /\ UNCHANGED <<installed, changes, key, window, cached>>

\* The promise of get() settles: the lookup is over.
Resolve(c, found) ==
    /\ stage[c] = IF found THEN "found" ELSE "failed"
    /\ stage' = [stage EXCEPT ![c] = "none"]
    /\ key' = [key EXCEPT ![c] = First]
    /\ window' = [window EXCEPT ![c] = {}]
    /\ UNCHANGED <<installed, changes, cached, probeVars, overlapped>>

\* Another compiler is installed.
Replace(v) ==
    /\ changes < MaxChanges
    /\ v # installed
    /\ installed' = v
    /\ changes' = changes + 1
    /\ overlapped' = overlapped \cup computing
    /\ window' = [c \in Lookers |->
                    IF stage[c] \in {"stat", "waiting"} THEN window[c] \cup {v} ELSE window[c]]
    /\ UNCHANGED <<stage, key, cached, probeVars>>

InfoTypeOK ==
    /\ installed \in Compilers
    /\ changes \in 0..MaxChanges
    /\ stage \in [Lookers -> {"none", "stat", "waiting", "found", "failed"}]
    /\ key \in [Lookers -> Compilers]
    /\ cached \in [Compilers -> SUBSET Compilers]
    /\ computing \in SUBSET Compilers
    /\ seen \in [Compilers -> SUBSET Compilers]
    /\ left \in [Compilers -> 0..Probes]
    /\ window \in [Lookers -> SUBSET Compilers]
    /\ overlapped \in SUBSET Compilers

(* Who looks a compiler up is told about one that was installed in the course of
   the lookup, and about one only, unless the compiler was replaced while the info
   of the key was being probed: then a mixture may stay in the cache. *)
InfoIsOfTheCompiler ==
    \A c \in Lookers : (stage[c] = "found" /\ key[c] \notin overlapped) =>
       cached[key[c]] = {key[c]} /\ key[c] \in window[c]
=============================================================================
