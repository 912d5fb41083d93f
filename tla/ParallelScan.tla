---------------------------- MODULE ParallelScan ----------------------------
(***************************************************************************)
(* World::nearest_obstacle of src/src/node.rs from the moment its hulls    *)
(* are built: the candidates are cut into blocks, each block is scanned on *)
(* a thread of its own, the last one on the calling thread, and when all   *)
(* are done the calling thread picks the winner in candidate order.        *)
(* Where the line meets a candidate's hulls is geometry and left open.     *)
(* The query is one of the world's, so names that World has too begin with *)
(* Scan here.                                                              *)
(***************************************************************************)
EXTENDS Integers, Sequences

CONSTANTS MinPerBlock,    \* MIN_CANDIDATES_PER_BLOCK
          MaxThreads,     \* bound: what set_parallelism is asked for
          MaxCandidates,  \* bound: candidates of one query
          MaxDistance     \* bound: path length to a crossing

ASSUME AssumeSizes == /\ {MinPerBlock, MaxThreads} \subseteq Nat \ {0}
                      /\ {MaxCandidates, MaxDistance} \subseteq Nat

NoCrossing == -1
Crossing == {NoCrossing} \cup 0..MaxDistance
Candidates == UNION {[1..n -> Crossing] : n \in 0..MaxCandidates}

VARIABLES parallelism,  \* World::parallelism
          phase,        \* "idle", "scan" or "pick"
          crossings,    \* nearest_crossing of each candidate, in uid order
          results,      \* what the threads have written
          left,         \* candidates no thread has come to yet
          spawned,      \* threads spawned so far
          cursor, best, \* the winner scan
          answer        \* what the query returned

scanVars == <<parallelism, phase, crossings, results, left, spawned, cursor, best, answer>>

NoAnswer == [item |-> 0, found |-> FALSE]

ScanTypeOK ==
    /\ parallelism \in 1..MaxThreads
    /\ phase \in {"idle", "scan", "pick"}
    /\ crossings \in Candidates
    /\ results \in [DOMAIN crossings -> Crossing]
    /\ left \subseteq DOMAIN crossings
    /\ spawned \in Nat /\ cursor \in Nat /\ best \in Nat
    /\ answer \in [item : Nat, found : BOOLEAN]

Total == Len(crossings)

(* World::new: one thread unless the host asks for more.                   *)
ScanInit == /\ parallelism = 1 /\ phase = "idle"
            /\ crossings = <<>> /\ results = <<>> /\ left = {} /\ spawned = 0
            /\ cursor = 0 /\ best = 0
            /\ answer = NoAnswer
----------------------------------------------------------------------------
(* World::set_parallelism takes the world for itself, so never amid a scan.*)
SetParallelism(threads) ==
    /\ phase = "idle"
    /\ parallelism' = IF threads = 0 THEN 1 ELSE threads
    /\ UNCHANGED <<phase, crossings, results, left, spawned, cursor, best, answer>>

(* The query, its candidates and their hulls.  Every result starts as "no  *)
(* crossing", which is also an answer a thread may give.                   *)
Query(c) ==
    /\ phase = "idle"
    /\ phase' = IF c = <<>> THEN "pick" ELSE "scan"
    /\ crossings' = c
    /\ results' = [i \in DOMAIN c |-> NoCrossing]
    /\ left' = DOMAIN c
    /\ spawned' = 0 /\ cursor' = 1 /\ best' = 0
    /\ answer' = NoAnswer
    /\ UNCHANGED parallelism

(* The blocks scan_candidates asks for; fewer than two are not worth it.   *)
Wanted == IF Total \div MinPerBlock < parallelism THEN Total \div MinPerBlock
                                                  ELSE parallelism
Blocks == IF Wanted < 2 THEN 1 ELSE Wanted

(* Mutant of BlockSize: rounded down.                                      *)
BlockSizeDown == Total \div Blocks

(* div_ceil                                                                *)
BlockSize == (Total + Blocks - 1) \div Blocks

(* chunks(block_size): the last block may be short, and there may be fewer *)
(* of them than were asked for.                                            *)
BlockOf(i) == (i - 1) \div BlockSize + 1
Chunks == BlockOf(Total)
Block(b) == {i \in DOMAIN crossings : BlockOf(i) = b}

Spawn == /\ phase = "scan" /\ spawned < Chunks - 1
         /\ spawned' = spawned + 1
         /\ UNCHANGED <<parallelism, phase, crossings, results, left, cursor, best, answer>>

(* The calling thread takes the last block once the others are spawned.    *)
Started(b) == b <= spawned \/ (b = Chunks /\ spawned = Chunks - 1)

(* Mutant of Advanced: a candidate that is not crossed is looked at again. *)
AdvancedCrossed(i) == IF crossings[i] = NoCrossing THEN left ELSE left \ {i}

Advanced(i) == left \ {i}

(* fill_block, one candidate of block b.                                   *)
Fill(b) ==
    /\ phase = "scan" /\ Started(b)
    /\ \E i \in Block(b) \cap left :
         /\ \A j \in Block(b) \cap left : i <= j
         /\ results' = [results EXCEPT ![i] = crossings[i]]
         /\ left' = Advanced(i)
    /\ UNCHANGED <<parallelism, phase, crossings, spawned, cursor, best, answer>>

(* The end of std::thread::scope: every thread has come to an end.         *)
Joined == \A b \in 1..Chunks : Block(b) \cap left = {}

Join == /\ phase = "scan" /\ spawned = Chunks - 1 /\ Joined
        /\ phase' = "pick"
        /\ UNCHANGED <<parallelism, crossings, results, left, spawned, cursor, best, answer>>

(* Mutant of Wins: a tie goes to the later candidate.                      *)
WinsTie == /\ results[cursor] # NoCrossing
           /\ best = 0 \/ results[cursor] <= results[best]

(* The winner scan, one candidate; a distance of zero ends it.             *)
Wins == /\ results[cursor] # NoCrossing
        /\ best = 0 \/ results[cursor] < results[best]

Pick == /\ phase = "pick" /\ cursor \in DOMAIN results
        /\ best' = IF Wins THEN cursor ELSE best
        /\ cursor' = IF Wins /\ results[cursor] = 0 THEN Total + 1 ELSE cursor + 1
        /\ UNCHANGED <<parallelism, phase, crossings, results, left, spawned, answer>>

(* No candidates, no answer; no crossing, the first candidate.             *)
Return == /\ phase = "pick" /\ cursor > Total
          /\ answer' = [item  |-> IF best # 0 THEN best ELSE IF crossings = <<>> THEN 0 ELSE 1,
                        found |-> best # 0]
          /\ phase' = "idle"
          /\ crossings' = <<>> /\ results' = <<>> /\ left' = {} /\ spawned' = 0
          /\ cursor' = 0 /\ best' = 0
          /\ UNCHANGED parallelism

ScanNext == \/ \E threads \in 0..MaxThreads : SetParallelism(threads)
            \/ \E c \in Candidates : Query(c)
            \/ Spawn \/ (\E b \in 1..MaxThreads : Fill(b)) \/ Join
            \/ Pick \/ Return

(* The operating system runs every thread that can run; nobody has to ask. *)
Fairness == /\ WF_scanVars(Spawn) /\ WF_scanVars(Join) /\ WF_scanVars(Pick) /\ WF_scanVars(Return)
            /\ \A b \in 1..MaxThreads : WF_scanVars(Fill(b))

ScanSpec == ScanInit /\ [][ScanNext]_scanVars /\ Fairness
----------------------------------------------------------------------------
(* A query never runs on more threads than the host allowed, the calling   *)
(* one included, however the candidates divide.                            *)
WithinParallelism == phase = "scan" => Chunks <= parallelism

(* What the threads have done so far is right, and where the winner scan   *)
(* has come to, its best is the nearest yet.                               *)
ScannedRight == \A i \in DOMAIN crossings \ left : results[i] = crossings[i]

BestSoFar ==
    phase = "pick" =>
        /\ left = {}
        /\ best # 0 => /\ best \in DOMAIN crossings /\ best < cursor
                       /\ crossings[best] # NoCrossing
        /\ \A i \in DOMAIN crossings :
             i < cursor /\ crossings[i] # NoCrossing =>
               /\ best # 0
               /\ crossings[best] < crossings[i] \/ (crossings[best] = crossings[i] /\ best <= i)

(* The inductive invariant of the scan.                                    *)
ScanInv == /\ ScanTypeOK /\ ScannedRight /\ BestSoFar
           /\ phase = "scan" => crossings # <<>> /\ cursor = 1 /\ best = 0
           /\ phase = "idle" => crossings = <<>>

(* Every query the line asks comes back, whichever way the threads take    *)
(* turns: the caller does not wait for a block nobody scans.               *)
QueriesReturn == phase # "idle" ~> phase = "idle"

(* However the candidates were cut and the threads took turns, the answer  *)
(* is the one a single thread gives: the module implements NearestObstacle.*)
Sequential == INSTANCE NearestObstacle WITH asked <- phase # "idle"
RefinesNearestObstacle == Sequential!Spec
=============================================================================
