------------------------------ MODULE ProbeCache ------------------------------
(***************************************************************************)
(* The cached probes of HandBrakeCLI in app/encoders.py: the list of its   *)
(* encoders (available_encoders) and the speed presets of each encoder     *)
(* (encoder_presets).  Both look into their cache under _lock, run         *)
(* HandBrakeCLI without it, and store under it what they found, so two     *)
(* callers may probe at once and reset_cache may come in between.          *)
(*                                                                         *)
(* Of an answer is kept whether the probe succeeded (a failed one yields   *)
(* the empty list) and the generation in which the binary was run.         *)
(***************************************************************************)
EXTENDS Integers

CONSTANTS Key,        \* the caches: the list of encoders, the presets of each
          Caller,     \* the threads that ask
          MaxResets,  \* bound: how often the caches are reset
          None

ASSUME ProbeAssumption == MaxResets \in Nat

VARIABLES
  cache,       \* _cache and _preset_cache
  generation,  \* _generation
  pc, key, gen, found,  \* the locals of every caller
  begun        \* the generation in which a caller's call began

vars == <<cache, generation, pc, key, gen, found, begun>>

Answer == [ok : BOOLEAN, of : 0..MaxResets]

TypeOK ==
  /\ \A k \in Key : cache[k] = None \/ cache[k] \in Answer
  /\ generation \in 0..MaxResets
  /\ pc \in [Caller -> {"idle", "probe", "store", "answered"}]
  /\ key \in [Caller -> Key \cup {None}]
  /\ \A c \in Caller : pc[c] # "idle" => key[c] \in Key
  /\ gen \in [Caller -> 0..MaxResets] /\ begun \in [Caller -> 0..MaxResets]
  /\ found \in [Caller -> Answer]

NoAnswer == [ok |-> FALSE, of |-> 0]

Init ==
  /\ cache = [k \in Key |-> None] /\ generation = 0
  /\ pc = [c \in Caller |-> "idle"]
  /\ key = [c \in Caller |-> None]
  /\ gen = [c \in Caller |-> 0] /\ begun = [c \in Caller |-> 0]
  /\ found = [c \in Caller |-> NoAnswer]

Go(c, from, to) == pc[c] = from /\ pc' = [pc EXCEPT ![c] = to]

Remembered == generation

Cached(k) == cache[k] # None

\* The first critical section: answer from the cache, or remember the
\* generation and probe.
Lookup(c, k) ==
  /\ \/ /\ Cached(k)
        /\ Go(c, "idle", "answered")
        /\ found' = [found EXCEPT ![c] = cache[k]] /\ gen' = gen
     \/ /\ ~Cached(k)
        /\ Go(c, "idle", "probe")
        /\ gen' = [gen EXCEPT ![c] = Remembered] /\ found' = found
  /\ key' = [key EXCEPT ![c] = k]
  /\ begun' = [begun EXCEPT ![c] = generation]
  /\ UNCHANGED <<cache, generation>>

\* HandBrakeCLI runs, or fails, or times out.
Probe(c, ok) ==
  /\ Go(c, "probe", "store")
  /\ found' = [found EXCEPT ![c] = [ok |-> ok, of |-> generation]]
  /\ UNCHANGED <<cache, generation, key, gen, begun>>

\* Mutant: a result is stored whatever happened meanwhile.
StillCurrentAlways(c) == TRUE
StillCurrent(c) == generation = gen[c]

\* The second critical section: store unless the cache was reset meanwhile; the
\* caller gets what it found in any case.
Store(c) ==
  /\ Go(c, "store", "answered")
  /\ cache' = IF StillCurrent(c) THEN [cache EXCEPT ![key[c]] = found[c]] ELSE cache
  /\ UNCHANGED <<generation, key, gen, found, begun>>

\* The locals of a call that is over are gone.
Over(c) ==
  /\ key' = [key EXCEPT ![c] = None] /\ found' = [found EXCEPT ![c] = NoAnswer]
  /\ gen' = [gen EXCEPT ![c] = 0] /\ begun' = [begun EXCEPT ![c] = 0]
  /\ UNCHANGED <<cache, generation>>

\* The call returns.
Return(c) == Go(c, "answered", "idle") /\ Over(c)

\* The call raises, with nothing stored: HandBrakeCLI has printed what is no text.
\* (The presets are decoded with errors="replace", the list of encoders is not.)
ProbeRaises(c) == Go(c, "probe", "idle") /\ Over(c)

\* reset_cache
Reset ==
  /\ generation < MaxResets
  /\ cache' = [k \in Key |-> None]
  /\ generation' = generation + 1
  /\ UNCHANGED <<pc, key, gen, found, begun>>

Next ==
  \/ \E c \in Caller : \/ \E k \in Key : Lookup(c, k)
                       \/ \E ok \in BOOLEAN : Probe(c, ok)
                       \/ Store(c) \/ Return(c) \/ ProbeRaises(c)
  \/ Reset

Spec == Init /\ [][Next]_vars

-----------------------------------------------------------------------------

\* reset_cache drops the probes on their way too: what a caller gets that asks
\* after a reset was found out after it.
NoStaleAnswer ==
  \A c \in Caller : pc[c] = "answered" => found[c].of >= begun[c]
=============================================================================
