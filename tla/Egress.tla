-------------------------------- MODULE Egress --------------------------------
(***************************************************************************)
(* The ddos detector's container rates: Docker is asked for the running    *)
(* containers and then, one after another, for their transmit counters.    *)
(* The difference to the last sample, over the time between the captures   *)
(* the two were taken for, is compared with two thresholds.  Any request   *)
(* may fail or be slow; a container may be stopped, and counts from zero   *)
(* when it is started again.                                               *)
(*                                                                         *)
(* A container's interfaces are one pair of counters, already summed.      *)
(***************************************************************************)
EXTENDS Naturals

CONSTANTS
  Containers,
  Loads,           \* what a container may send in a tick: <<packets, bytes>>
  PPS, BPS,        \* thresholds, to a tick
  Word,            \* 2^w: counters are taken modulo Word
  MaxPackets,      \* bound: packets a container sends before the model stops
  MaxAge           \* bound: ticks a sample is kept and a check may last

ASSUME EgressAssumption ==
  /\ Loads \subseteq Nat \X Nat
  /\ {PPS, BPS} \subseteq Nat \ {0}
  /\ Word \in Nat \ {0} /\ {MaxPackets, MaxAge} \subseteq Nat

VARIABLES
  running,         \* containers Docker would list
  tx,              \* their counters
  phase,           \* of the detector: "idle", "captured", "sampling"
  lag,             \* time since the capture of the scan under way
  listed, todo,    \* what the last list held, and what of it is not sampled yet
  prev,            \* samples: container -> [packets, bytes, age of its capture]
  flagged,         \* containers the scan under way has reported
  since,           \* history: container -> what it sent since it was last
                   \*   sampled, and the time that is: [packets, bytes, age]
  reset,           \* history: sampled containers that were stopped since
  late             \* history: containers sampled after the clock had moved on
                   \*   from the capture

world  == <<running, tx>>
record == <<since, reset, late>>
vars   == <<world, phase, lag, listed, todo, prev, flagged, record>>

Silent == [packets |-> 0, bytes |-> 0]
Fresh  == [packets |-> 0, bytes |-> 0, age |-> 0]
NoSamples == [c \in {} |-> Fresh]

Init ==
  /\ running \in SUBSET Containers /\ tx = [c \in Containers |-> Silent]
  /\ phase = "idle" /\ lag = 0 /\ listed = {} /\ todo = {} /\ prev = NoSamples
  /\ flagged = {}
  /\ since = [c \in Containers |-> Fresh] /\ reset = {} /\ late = {}

-------------------------------------------------------------------------------
(* checkContainerRates.                                                    *)

(* The history of containers without a sample.                             *)
Forget(cs) ==
  /\ since' = [c \in Containers |-> IF c \in cs THEN Fresh ELSE since[c]]
  /\ reset' = reset \ cs
  /\ late' = late \ cs

(* uint64 subtraction.                                                     *)
Difference(a, b) == ((a + Word) - b) % Word

(* Both samples carry the time of their capture, not of the request.       *)
Elapsed(c) == prev[c].age - lag

PacketRate(c) == Difference(tx[c].packets, prev[c].packets) \div Elapsed(c)
ByteRate(c)   == Difference(tx[c].bytes, prev[c].bytes) \div Elapsed(c)

(* Only the packet counter is looked at to notice that they fell.          *)
Floods(c) ==
  /\ c \in DOMAIN prev /\ Elapsed(c) > 0
  /\ tx[c].packets >= prev[c].packets
  /\ PacketRate(c) >= PPS \/ ByteRate(c) >= BPS

Sampled(c) ==
  [d \in DOMAIN prev \cup {c} |->
     IF d = c THEN [packets |-> tx[c].packets, bytes |-> tx[c].bytes, age |-> lag]
     ELSE prev[d]]

Capture ==
  /\ phase = "idle"
  /\ phase' = "captured" /\ lag' = 0
  /\ UNCHANGED <<world, listed, todo, prev, flagged, record>>

List ==
  /\ phase = "captured"
  /\ phase' = "sampling" /\ listed' = running /\ todo' = running
  /\ UNCHANGED <<world, lag, prev, flagged, record>>

(* No list: nothing is reported, and no sample is touched.                 *)
ListFails ==
  /\ phase = "captured"
  /\ phase' = "idle" /\ lag' = 0
  /\ UNCHANGED <<world, listed, todo, prev, flagged, record>>

Sample(c) ==
  /\ phase = "sampling" /\ c \in todo
  /\ todo' = todo \ {c}
  /\ flagged' = IF Floods(c) THEN flagged \cup {c} ELSE flagged
  /\ prev' = Sampled(c)
  /\ since' = [since EXCEPT ![c] = Fresh]
  /\ reset' = reset \ {c}
  /\ late' = IF lag > 0 THEN late \cup {c} ELSE late \ {c}
  /\ UNCHANGED <<world, phase, lag, listed>>

(* Mutant: a container whose counters could not be read is taken to have   *)
(* been sampled for this capture.                                          *)
MutStatsFail(c) ==
  /\ phase = "sampling" /\ c \in todo
  /\ todo' = todo \ {c}
  /\ prev' = [d \in DOMAIN prev |-> IF d = c THEN [prev[c] EXCEPT !.age = lag] ELSE prev[d]]
  /\ UNCHANGED <<world, phase, lag, listed, flagged, record>>

(* The old sample stays, with its time.                                    *)
StatsFail(c) ==
  /\ phase = "sampling" /\ c \in todo
  /\ todo' = todo \ {c}
  /\ UNCHANGED <<world, phase, lag, listed, prev, flagged, record>>

(* Mutant: the samples of containers that are gone are kept.               *)
MutFinish ==
  /\ phase = "sampling" /\ todo = {}
  /\ phase' = "idle" /\ lag' = 0 /\ flagged' = {}
  /\ UNCHANGED <<world, listed, todo, prev, record>>

(* Samples of containers that were not listed are dropped.                 *)
Finish ==
  /\ phase = "sampling" /\ todo = {}
  /\ phase' = "idle" /\ lag' = 0 /\ flagged' = {}
  /\ prev' = [c \in DOMAIN prev \cap listed |-> prev[c]]
  /\ Forget(Containers \ DOMAIN prev')
  /\ UNCHANGED <<world, listed, todo>>

(* The daemon is stopped or crashes, and starts again.                     *)
Restart ==
  /\ phase' = "idle" /\ lag' = 0 /\ listed' = {} /\ todo' = {}
  /\ prev' = NoSamples /\ flagged' = {}
  /\ Forget(Containers)
  /\ UNCHANGED world

-------------------------------------------------------------------------------
(* The containers and the clock.                                           *)

Tick ==
  /\ phase # "idle" => lag < MaxAge
  /\ lag' = IF phase = "idle" THEN 0 ELSE lag + 1
  /\ \A c \in DOMAIN prev : prev[c].age < MaxAge
  /\ prev' = [c \in DOMAIN prev |-> [prev[c] EXCEPT !.age = @ + 1]]
  /\ \E load \in [running -> Loads] :
       LET Load(c, i) == IF c \in running THEN load[c][i] ELSE 0 IN
       /\ \A c \in running : tx[c].packets + Load(c, 1) <= MaxPackets
       /\ tx' = [c \in Containers |-> [packets |-> tx[c].packets + Load(c, 1),
                                       bytes |-> tx[c].bytes + Load(c, 2)]]
       /\ since' = [c \in Containers |->
                      IF c \notin DOMAIN prev THEN Fresh
                      ELSE [packets |-> since[c].packets + Load(c, 1),
                            bytes |-> since[c].bytes + Load(c, 2),
                            age |-> since[c].age + 1]]
  /\ UNCHANGED <<running, phase, listed, todo, flagged, reset, late>>

Start(c) ==
  /\ c \notin running
  /\ running' = running \cup {c}
  /\ UNCHANGED <<tx, phase, lag, listed, todo, prev, flagged, record>>

Stop(c) ==
  /\ c \in running
  /\ running' = running \ {c}
  /\ tx' = [tx EXCEPT ![c] = Silent]
  /\ reset' = reset \cup ({c} \cap DOMAIN prev)
  /\ UNCHANGED <<phase, lag, listed, todo, prev, flagged, since, late>>

Next ==
  \/ Capture \/ List \/ ListFails \/ Finish \/ Restart \/ Tick
  \/ \E c \in Containers : Sample(c) \/ StatsFail(c) \/ Start(c) \/ Stop(c)

Spec == Init /\ [][Next]_vars

-------------------------------------------------------------------------------
Counters == [packets : Nat, bytes : Nat]

(* Shapes; between two scans only containers of the last list are          *)
(* remembered (ddos.go drops the others).                                  *)
TypeOK ==
  /\ running \subseteq Containers /\ tx \in [Containers -> Counters]
  /\ phase \in {"idle", "captured", "sampling"} /\ lag \in 0 .. MaxAge
  /\ todo \subseteq listed /\ listed \subseteq Containers /\ flagged \subseteq listed
  /\ DOMAIN prev \subseteq Containers
  /\ prev \in [DOMAIN prev -> [packets : Nat, bytes : Nat, age : 0 .. MaxAge]]
  /\ phase = "idle" => DOMAIN prev \subseteq listed
  /\ since \in [Containers -> [packets : Nat, bytes : Nat, age : Nat]]
  /\ reset \subseteq DOMAIN prev /\ late \subseteq DOMAIN prev

(* The rate of what c really sent since it was last sampled.               *)
ReallyFloods(c) ==
  /\ since[c].age > 0
  /\ \/ since[c].packets \div since[c].age >= PPS
     \/ since[c].bytes \div since[c].age >= BPS

(* c was sampled before, and both samples are as old as their captures.    *)
Prompt(c) == c \in DOMAIN prev \ late /\ lag = 0

(* A container that was not stopped between two prompt samples is reported *)
(* if and only if it really sent over a threshold since the last sample    *)
(* that succeeded, whatever requests failed in between.                    *)
FlaggedIffFlooding ==
  [][\A c \in todo \ reset :
       Sample(c) /\ Prompt(c) => (c \in flagged' <=> ReallyFloods(c))]_vars

(* What it takes: with at most that many bytes in a tick no counter goes   *)
(* round in the time that a sample is kept.                                *)
NothingWraps(most) ==
  /\ \A l \in Loads : l[2] <= most
  /\ MaxPackets < Word /\ most * MaxAge < Word

(* "flags egress rates above the configured packet- or byte-per-second     *)
(* thresholds" (ddos.go): of promptly sampled containers, no others.       *)
FlaggedOnlyIfFlooding ==
  [][\A c \in todo :
       Sample(c) /\ Prompt(c) /\ c \in flagged' \ flagged => ReallyFloods(c)]_vars
===============================================================================
