----------------------------- MODULE MCDbEngine -----------------------------
(***************************************************************************)
(* The storage engines on small instances.  part picks the machine a       *)
(* behaviour is about: the sequences, the LevelDB transaction and cursor,  *)
(* the data operations of the four engines, the Sandwich transactions, the *)
(* checkpoints and the compaction of Berkeley DB, or opening and closing.  *)
(***************************************************************************)
EXTENDS DbSeq, DbLevel, DbSandwich, DbBerkeley, DbEngineLife, DbEngineData

CONSTANTS m1, m2, o1, o2, c1, c2, p1, p2

VARIABLE part

MCInit ==
  /\ part \in {"seq", "level", "data", "sandwich", "checkpoint", "compact", "life"}
  /\ Init
  /\ LevelInit /\ (part # "level" => tables["idx"] = {})
  /\ EntriesInit /\ (part # "data" => engine = "level")
  /\ SandwichInit /\ (part # "sandwich" => mode = "sync")
  /\ BerkeleyInit /\ (part # "compact" => keys = {})
  /\ LifeInit /\ (part # "life" => kind = "level" /\ version = "absent")

SeqStep == part = "seq" /\ Next
           /\ UNCHANGED <<levelVars, dataVars, sandwichVars, checkpointVars, compactVars, lifeVars, part>>
LevelStep == part = "level" /\ LevelNext
             /\ UNCHANGED <<vars, dataVars, sandwichVars, checkpointVars, compactVars, lifeVars, part>>
DataStep == part = "data" /\ EntriesNext
            /\ UNCHANGED <<vars, levelVars, sandwichVars, checkpointVars, compactVars, lifeVars, part>>
SandwichStep == part = "sandwich" /\ SandwichNext
                /\ UNCHANGED <<vars, levelVars, dataVars, checkpointVars, compactVars, lifeVars, part>>
CheckpointStep == part = "checkpoint" /\ CheckpointNext
                  /\ UNCHANGED <<vars, levelVars, dataVars, sandwichVars, lifeVars, part>>
CompactStep == part = "compact" /\ CompactNext
               /\ UNCHANGED <<vars, levelVars, dataVars, sandwichVars, lifeVars, part>>
LifeStep == part = "life" /\ LifeNext
            /\ UNCHANGED <<vars, levelVars, dataVars, sandwichVars, checkpointVars, compactVars, part>>

MCNext ==
  SeqStep \/ LevelStep \/ DataStep \/ SandwichStep \/ CheckpointStep \/ CompactStep \/ LifeStep

MCSpec ==
  /\ MCInit
  /\ [][MCNext]_<<vars, levelVars, dataVars, sandwichVars, checkpointVars, compactVars, lifeVars, part>>
  /\ Fairness

=============================================================================
