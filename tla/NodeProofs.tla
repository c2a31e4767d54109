----------------------------- MODULE NodeProofs -----------------------------
(***************************************************************************)
(* Theorems about Node, for every set of blocks, every numbering, every    *)
(* choice of sources and every configuration.  The safety properties are   *)
(* consequences of one inductive invariant, NodeInv, which says what each  *)
(* task may rely on at each of its positions although other tasks, crashes *)
(* and restarts come in between.                                           *)
(***************************************************************************)
EXTENDS Node, TLAPS

\* The chain as the database holds it: everything stored is finalized, and
\* every block has its predecessor, down to a block numbered 0.
ChainShape ==
    /\ block = finalized
    /\ \A b \in finalized :
          Number[b] = 0 \/ \E c \in finalized : Number[b] = Number[c] + 1
    /\ finalized = {} \/ \E b \in finalized : Number[b] = 0

\* n is the number the next block must have (saturated at MaxWord).
TipNumber(n) ==
    \/ n = 0 /\ finalized = {}
    \/ \E c \in finalized : IsLatest(c) /\ n = Succ(Number[c])

\* The latest block, if any, was served on the current connection.
TipServed == \A c \in finalized : IsLatest(c) => c \in rsource

\* Start-up runs alone, and what it read about the database still holds.
StartUpInv ==
    /\ main \notin {"listen", "run"} => rpc = "off"
    /\ main # "run" => vpc = "off"
    /\ main \in {"list", "insert", "begin", "set"} => bigBang \in BigBangs
    /\ main = "insert" => finalized = {}
    /\ main \in {"begin", "set"} => bigBang \in finalized
    /\ main = "set" => progress = NoBlock

\* The relayer is the only writer of blocks, so what it read when it connected
\* still describes the tip.
RelayerInv ==
    /\ rpc = "connect" => IF rprog = NoBlock THEN finalized = {} ELSE IsLatest(rprog)
    /\ rpc = "first" =>
          /\ rprog # NoBlock /\ IsLatest(rprog) /\ rnext = Succ(Number[rprog])
          /\ rsource \in Sources
    /\ rpc = "stream" => TipNumber(rnext) /\ TipServed /\ rsource \in Sources
    /\ rpc = "write" =>
          /\ rblock \in rsource /\ TipNumber(Number[rblock])
          /\ rnext = Succ(Number[rblock])
          /\ TipServed /\ rsource \in Sources
    /\ rpc = "notify" =>
          /\ rblock \in rsource /\ IsLatest(rblock)
          /\ rnext = Succ(Number[rblock])
          /\ rsource \in Sources

\* The validation stream is the only writer of the progress, so the block it
\* works on stays the one above the progress.
ValidationInv ==
    /\ vpc = "next" => progress # NoBlock /\ vprog = progress
    /\ vpc \in {"validate", "record", "fail"} =>
          /\ progress # NoBlock
          /\ vblock \in finalized
          /\ Number[vblock] = Number[progress] + 1
    /\ vpc = "record" /\ vintact => vblock \in Valid
    /\ vpc = "more" => progress # NoBlock /\ vblock = progress
    /\ vpc = "select" => progress # NoBlock
    /\ vpc = "done" /\ ~vclose => RelayerEnded

\* A failed block is the one directly above the progress, or lies below it
\* because a later attempt succeeded; it is never further ahead.
FailedNearProgress ==
    \A b \in failed :
        /\ b \in finalized
        /\ progress # NoBlock
        /\ Number[b] <= Number[progress] + 1

NodeInv ==
    /\ TypeOK
    /\ ChainShape
    /\ OneBlockPerNumber
    /\ StartUpInv
    /\ RelayerInv
    /\ ValidationInv
    /\ NoForkedGrowth
    /\ ProgressSound
    /\ FailedNearProgress
    /\ NoLostWakeup
    /\ DrainsBeforeEnding

-----------------------------------------------------------------------------
(* Facts used by several steps.                                            *)

LEMMA Numbers ==
    /\ MaxWord \in Nat
    /\ \A b \in Blocks : Number[b] \in Nat /\ Number[b] <= MaxWord
    /\ NoBlock \notin Blocks
    /\ \A b \in BigBangs : b \in Blocks /\ Number[b] = 0
    /\ \A S \in Sources : S \subseteq Blocks
  BY NodeAssumption DEF NodeAssumption

\* The expected number after n stays a block number.
LEMMA SuccType == \A n \in 0..MaxWord : Succ(n) \in 0..MaxWord
  BY Numbers DEF Succ

\* A step that leaves the database alone keeps what is said of it alone.
LEMMA DatabaseFrame ==
    ASSUME NodeInv, UNCHANGED dbVars
    PROVE  /\ ChainShape' /\ OneBlockPerNumber' /\ NoForkedGrowth'
           /\ ProgressSound' /\ FailedNearProgress'
<1> USE DEF NodeInv, dbVars
<1>1. ChainShape' /\ OneBlockPerNumber' /\ NoForkedGrowth'
  BY DEF ChainShape, OneBlockPerNumber, NoForkedGrowth
<1>2. ProgressSound' /\ FailedNearProgress'
  BY DEF ProgressSound, FailedNearProgress
<1> QED
  BY <1>1, <1>2

\* A step of neither the relayer nor the block tables keeps RelayerInv.
LEMMA RelayerFrame ==
    ASSUME NodeInv, UNCHANGED finalized, UNCHANGED rVars
    PROVE  RelayerInv'
  BY DEF NodeInv, rVars, RelayerInv, IsLatest, TipNumber, TipServed, Succ

\* A step of the running relayer that writes nothing and announces nothing
\* does not disturb the others.
LEMMA RelayerQuiet ==
    ASSUME NodeInv, UNCHANGED <<dbVars, rFrame, unseen>>,
           rpc # "off", rpc # "notify", ~RelayerEnded
    PROVE  StartUpInv' /\ ValidationInv' /\ NoLostWakeup' /\ DrainsBeforeEnding'
<1> USE DEF NodeInv, dbVars, rFrame, mVars, hVars, vVars
<1>1. StartUpInv'
  BY DEF StartUpInv
<1>2. ValidationInv'
  BY DEF ValidationInv
<1>3. NoLostWakeup' /\ DrainsBeforeEnding'
  BY DEF NoLostWakeup, DrainsBeforeEnding, NextBlocks
<1> QED
  BY <1>1, <1>2, <1>3

-----------------------------------------------------------------------------
(* Every step of the relayer preserves the invariant.                      *)

LEMMA RelayerReads ==
    ASSUME NodeInv,
           \/ GetBlockProgress \/ StreamBlocks \/ CheckBlockFork \/ ReceiveBlock
           \/ RelayerShutdown \/ RelayerFault
    PROVE  NodeInv'
<1> USE DEF dbVars, rFrame, hVars, mVars, vVars
<1>1. UNCHANGED <<dbVars, rFrame, unseen>>
  BY DEF GetBlockProgress, StreamBlocks, CheckBlockFork, ReceiveBlock,
         RelayerShutdown, RelayerFault, ConnectFails, RelayerRecovers,
         SourceEnds, RelayerDbError
<1>2. rpc # "off" /\ rpc # "notify" /\ ~RelayerEnded
  BY DEF GetBlockProgress, StreamBlocks, CheckBlockFork, ReceiveBlock,
         RelayerShutdown, RelayerFault, ConnectFails, RelayerRecovers,
         SourceEnds, RelayerDbError, RelayerEnded
<1>3. FlagsOK'
  BY <1>1, Zenon DEF NodeInv, TypeOK, FlagsOK
<1>4. TypeOK /\ RelayerInv
  BY DEF NodeInv
<1>5. TypeOK' /\ RelayerInv'
  <2> USE Numbers, SuccType, <1>1, <1>3, <1>4
          DEF TypeOK, MaybeBlocks, RelayerInv, IsLatest
  <2>1. CASE GetBlockProgress
    BY <2>1 DEF GetBlockProgress
  <2>2. CASE StreamBlocks
    <3>1. rsource' \in Sources /\ rprog' = rprog /\ rblock' = rblock
      BY <2>2 DEF StreamBlocks
    <3>2. CASE rprog = NoBlock
      BY <2>2, <3>1, <3>2 DEF StreamBlocks, TipNumber, TipServed
    <3>3. CASE rprog # NoBlock
      BY <2>2, <3>1, <3>3 DEF StreamBlocks
    <3> QED
      BY <3>2, <3>3
  <2>3. CASE CheckBlockFork
    <3>1. PICK b \in Offered(Number[rprog]) :
              rpc' = IF b = rprog THEN "stream" ELSE "forked"
      BY <2>3 DEF CheckBlockFork
    <3>2. b \in rsource
      BY DEF Offered
    <3>3. UNCHANGED <<finalized, rprog, rsource, rnext, rblock>>
      BY <2>3 DEF CheckBlockFork
    <3>4. IsLatest(rprog) /\ rnext = Succ(Number[rprog]) /\ rsource \in Sources
      BY <2>3 DEF CheckBlockFork
    <3>5. b = rprog => (TipNumber(rnext) /\ TipServed)'
      <4>1. \A c \in finalized : IsLatest(c) => c = rprog
        BY <3>4 DEF NodeInv, ChainShape, OneBlockPerNumber
      <4> QED
        BY <3>2, <3>3, <3>4, <4>1 DEF TipNumber, TipServed, Succ
    <3> QED
      BY <3>1, <3>3, <3>4, <3>5
  <2>4. CASE ReceiveBlock
    <3>1. PICK b \in Offered(rnext) :
              /\ rnext' = Succ(Number[b])
              /\ \/ Number[b] = rnext /\ rpc' = "write" /\ rblock' = b
                 \/ Number[b] # rnext /\ rpc' = "progress" /\ UNCHANGED rblock
      BY <2>4 DEF ReceiveBlock
    <3>2. UNCHANGED <<finalized, rprog, rsource>> /\ rpc = "stream"
      BY <2>4 DEF ReceiveBlock
    <3>3. b \in rsource /\ b \in Blocks
      BY <3>2 DEF Offered
    <3>4. Number[b] = rnext => (TipNumber(Number[b]) /\ TipServed)'
      BY <3>2 DEF TipNumber, TipServed, Succ
    <3> QED
      BY <3>1, <3>2, <3>3, <3>4 DEF Succ
  <2>5. CASE RelayerShutdown
    BY <2>5 DEF RelayerShutdown
  <2>6. CASE RelayerFault
    BY <2>6 DEF RelayerFault, ConnectFails, RelayerRecovers, SourceEnds,
                RelayerDbError
  <2> QED
    BY <2>1, <2>2, <2>3, <2>4, <2>5, <2>6
<1> QED
  BY <1>1, <1>2, <1>5, DatabaseFrame, RelayerQuiet DEF NodeInv

\* The block the relayer writes is not there yet and extends the chain.
LEMMA WrittenBlockExtends ==
    ASSUME NodeInv, rpc = "write", ~NumberTaken(rblock)
    PROVE  /\ rblock \in Blocks
           /\ \A c \in finalized : Number[c] < Number[rblock]
           /\ \/ finalized = {} /\ Number[rblock] = 0
              \/ \E c \in finalized : IsLatest(c) /\ Number[rblock] = Number[c] + 1
<1>1. rblock \in Blocks /\ finalized \subseteq Blocks
  BY Numbers DEF NodeInv, RelayerInv, TypeOK
<1>2. TipNumber(Number[rblock])
  BY DEF NodeInv, RelayerInv
<1>3. CASE Number[rblock] = 0 /\ finalized = {}
  BY <1>1, <1>3
<1>4. ASSUME NEW c \in finalized, IsLatest(c), Number[rblock] = Succ(Number[c])
      PROVE  /\ Number[rblock] = Number[c] + 1
             /\ \A d \in finalized : Number[d] < Number[rblock]
  BY <1>1, <1>4, Numbers DEF NumberTaken, IsLatest, Succ
<1> QED
  BY <1>1, <1>2, <1>3, <1>4 DEF TipNumber

LEMMA RelayerWrites ==
    ASSUME NodeInv, WriteBlock
    PROVE  NodeInv'
<1> USE DEF rFrame, hVars, mVars, vVars
<1>1. /\ UNCHANGED <<rFrame, unseen>> /\ UNCHANGED <<rprog, rsource, rnext, rblock>>
      /\ rpc = "write"
  BY DEF WriteBlock
<1>2. FlagsOK'
  BY <1>1, Zenon DEF NodeInv, TypeOK, FlagsOK
<1>3. CASE NumberTaken(rblock)
  <2>1. rpc' = "failed" /\ UNCHANGED dbVars
    BY <1>3 DEF WriteBlock
  <2>2. TypeOK' /\ RelayerInv'
    BY <1>1, <1>2, <2>1 DEF NodeInv, TypeOK, RelayerInv, dbVars
  <2> QED
    BY <1>1, <2>1, <2>2, DatabaseFrame, RelayerQuiet DEF NodeInv, RelayerEnded
<1>4. CASE ~NumberTaken(rblock)
  <2>1. /\ block' = block \cup {rblock} /\ finalized' = finalized \cup {rblock}
        /\ UNCHANGED <<progress, failed>> /\ rpc' = "notify"
    BY <1>4 DEF WriteBlock, InsertAndFinalize
  <2>2. /\ rblock \in Blocks
        /\ \A c \in finalized : Number[c] < Number[rblock]
        /\ \/ finalized = {} /\ Number[rblock] = 0
           \/ \E c \in finalized : IsLatest(c) /\ Number[rblock] = Number[c] + 1
    BY <1>1, <1>4, WrittenBlockExtends
  <2>3. /\ TypeOK /\ ChainShape /\ OneBlockPerNumber /\ StartUpInv /\ RelayerInv
        /\ ValidationInv /\ NoForkedGrowth /\ ProgressSound /\ FailedNearProgress
        /\ DrainsBeforeEnding
    BY DEF NodeInv
  <2>4. finalized \subseteq Blocks /\ block = finalized
    BY <2>3 DEF TypeOK, ChainShape
  <2>5. TypeOK'
    BY <1>1, <1>2, <2>1, <2>2, <2>3 DEF TypeOK
  <2>6. ChainShape' /\ OneBlockPerNumber'
    <3>1. OneBlockPerNumber'
      BY <2>1, <2>2, <2>3, <2>4, Numbers DEF OneBlockPerNumber
    <3>2. ChainShape'
      BY <2>1, <2>2, <2>3, <2>4 DEF ChainShape
    <3> QED
      BY <3>1, <3>2
  <2>7. NoForkedGrowth'
    <3>1. rblock \in rsource /\ rsource \in Sources /\ TipServed
      BY <1>1, <2>3 DEF RelayerInv
    <3>2. ASSUME NEW b \in finalized, Number[rblock] = Number[b] + 1
          PROVE  {b, rblock} \subseteq rsource
      <4>1. IsLatest(b)
        BY <2>2, <2>4, <3>2, Numbers DEF IsLatest
      <4> QED
        BY <3>1, <4>1 DEF TipServed
    <3>3. \A c \in finalized : Number[c] # Number[rblock] + 1
      BY <2>2, <2>4, Numbers
    <3>4. Number[rblock] # Number[rblock] + 1
      BY <2>2, Numbers
    <3> QED
      BY <2>1, <2>3, <3>1, <3>2, <3>3, <3>4 DEF NoForkedGrowth
  <2>8. StartUpInv'
    BY <1>1, <2>1, <2>3 DEF StartUpInv
  <2>9. RelayerInv'
    BY <1>1, <2>1, <2>2, <2>3, <2>4, Numbers DEF RelayerInv, IsLatest
  <2>10. ValidationInv' /\ ProgressSound' /\ FailedNearProgress'
    <3>1. ValidationInv'
      BY <1>1, <2>1, <2>3 DEF ValidationInv, RelayerEnded
    <3>2. ProgressSound' /\ FailedNearProgress'
      BY <2>1, <2>3 DEF ProgressSound, FailedNearProgress
    <3> QED
      BY <3>1, <3>2
  <2>11. NoLostWakeup'
    BY <2>1 DEF NoLostWakeup
  <2>12. DrainsBeforeEnding'
    BY <1>1, <2>3 DEF DrainsBeforeEnding, ValidationInv, RelayerEnded
  <2> QED
    BY <2>5, <2>6, <2>7, <2>8, <2>9, <2>10, <2>11, <2>12 DEF NodeInv
<1> QED
  BY <1>3, <1>4

LEMMA RelayerNotifies ==
    ASSUME NodeInv, NotifyBlock
    PROVE  NodeInv'
<1> USE DEF rFrame, hVars, mVars, vVars, dbVars
<1>1. /\ UNCHANGED <<dbVars, rFrame>> /\ UNCHANGED <<rprog, rsource, rnext>>
      /\ rpc = "notify" /\ rpc' = "stream" /\ rblock' = NoBlock
  BY DEF NotifyBlock
<1>2. FlagsOK'
  BY Zenon DEF NodeInv, TypeOK, FlagsOK, NotifyBlock
<1>3. TypeOK'
  BY <1>1, <1>2 DEF NodeInv, TypeOK, MaybeBlocks
<1>4. RelayerInv'
  <2>1. IsLatest(rblock) /\ rblock \in rsource /\ rnext = Succ(Number[rblock])
        /\ rsource \in Sources
    BY <1>1 DEF NodeInv, RelayerInv
  <2>2. \A c \in finalized : IsLatest(c) => c = rblock
    BY <2>1, Numbers DEF NodeInv, TypeOK, ChainShape, OneBlockPerNumber, IsLatest
  <2>3. TipNumber(rnext)' /\ TipServed'
    BY <1>1, <2>1, <2>2 DEF TipNumber, TipServed, IsLatest, Succ
  <2> QED
    BY <1>1, <2>1, <2>3 DEF RelayerInv
<1>5. StartUpInv' /\ ValidationInv' /\ DrainsBeforeEnding'
  <2>1. StartUpInv'
    BY <1>1 DEF NodeInv, StartUpInv
  <2>2. ValidationInv' /\ DrainsBeforeEnding'
    BY <1>1 DEF NodeInv, ValidationInv, DrainsBeforeEnding, NextBlocks, RelayerEnded
  <2> QED
    BY <2>1, <2>2
<1>6. NoLostWakeup'
  <2>1. vpc = "select" => unseen'
    BY DEF NotifyBlock
  <2> QED
    BY <1>1, <2>1 DEF NoLostWakeup
<1> QED
  BY <1>1, <1>3, <1>4, <1>5, <1>6, DatabaseFrame DEF NodeInv

-----------------------------------------------------------------------------
(* Starting and ending the process preserves the invariant.                *)

\* Before the tasks run there is nothing to say of them.
LEMMA NoTasks ==
    ASSUME rpc' = "off", vpc' = "off"
    PROVE  RelayerInv' /\ ValidationInv' /\ NoLostWakeup' /\ DrainsBeforeEnding'
  BY DEF RelayerInv, ValidationInv, NoLostWakeup, DrainsBeforeEnding

LEMMA HaltKeepsInv ==
    ASSUME NodeInv, Halt
    PROVE  NodeInv'
<1>1. FlagsOK'
  BY Zenon DEF Halt, FlagsOK
<1>2. TypeOK'
  BY <1>1, Numbers DEF NodeInv, TypeOK, Halt, dbVars, MaybeBlocks
<1>3. StartUpInv'
  BY DEF Halt, StartUpInv
<1> QED
  BY <1>2, <1>3, DatabaseFrame, NoTasks DEF NodeInv, Halt

LEMMA StartUpReads ==
    ASSUME NodeInv, Start \/ ListFirstBlock \/ ReadProgress
    PROVE  NodeInv'
<1> USE DEF hVars, rVars, vVars
<1>1. CASE Halt
  BY <1>1, HaltKeepsInv
<1>2. CASE ~Halt
  <2>1. /\ UNCHANGED <<dbVars, hVars, rVars, vVars, unseen>>
        /\ main \in {"down", "list", "begin"}
    BY <1>2 DEF Start, ListFirstBlock, ReadProgress
  <2>2. FlagsOK'
    BY <2>1, Zenon DEF NodeInv, TypeOK, FlagsOK
  <2>3. main' \in {"list", "insert", "begin", "set", "spawn"}
    BY <1>2 DEF Start, ListFirstBlock, ReadProgress
  <2>4. bigBang' \in MaybeBlocks
    BY <1>2, Numbers DEF NodeInv, TypeOK, MaybeBlocks, Start, ListFirstBlock, ReadProgress
  <2>5. TypeOK'
    BY <2>1, <2>2, <2>3, <2>4 DEF NodeInv, TypeOK, dbVars
  <2>6. StartUpInv'
    BY <1>2, <2>1 DEF NodeInv, StartUpInv, ChainShape, Start, ListFirstBlock,
                      ReadProgress, dbVars
  <2>7. rpc' = "off" /\ vpc' = "off"
    BY <2>1 DEF NodeInv, StartUpInv
  <2> QED
    BY <2>1, <2>5, <2>6, <2>7, DatabaseFrame, NoTasks DEF NodeInv
<1> QED
  BY <1>1, <1>2

LEMMA StartUpWrites ==
    ASSUME NodeInv, InsertBigBang \/ SetProgress
    PROVE  NodeInv'
<1> USE DEF hVars, rVars, vVars
<1>1. /\ UNCHANGED <<bigBang, hVars, rVars, vVars, unseen>>
      /\ bigBang \in BigBangs /\ bigBang \in Blocks /\ Number[bigBang] = 0
      /\ main \in {"insert", "set"}
  BY Numbers DEF NodeInv, StartUpInv, InsertBigBang, SetProgress
<1>2. FlagsOK'
  BY <1>1, Zenon DEF NodeInv, TypeOK, FlagsOK
<1>3. TypeOK'
  BY <1>1, <1>2 DEF NodeInv, TypeOK, MaybeBlocks, InsertBigBang, SetProgress,
                    InsertAndFinalize
<1>4. StartUpInv'
  BY <1>1 DEF NodeInv, StartUpInv, InsertBigBang, SetProgress, InsertAndFinalize
<1>5. rpc' = "off" /\ vpc' = "off"
  BY <1>1 DEF NodeInv, StartUpInv
<1>6. CASE InsertBigBang
  <2>1. finalized = {} /\ block = {} /\ failed = {} /\ progress = NoBlock
    BY <1>6 DEF NodeInv, StartUpInv, ChainShape, FailedNearProgress,
                ProgressSound, InsertBigBang
  <2>2. /\ block' = {bigBang} /\ finalized' = {bigBang}
        /\ failed' = {} /\ progress' = NoBlock
    BY <1>6, <2>1 DEF InsertBigBang, InsertAndFinalize
  <2>3. ChainShape' /\ OneBlockPerNumber' /\ NoForkedGrowth'
    BY <1>1, <2>2 DEF ChainShape, OneBlockPerNumber, NoForkedGrowth
  <2>4. ProgressSound' /\ FailedNearProgress'
    BY <2>2 DEF ProgressSound, FailedNearProgress
  <2> QED
    BY <1>3, <1>4, <1>5, <2>3, <2>4, NoTasks DEF NodeInv
<1>7. CASE SetProgress
  <2>1. progress' = bigBang /\ UNCHANGED <<block, finalized, failed>>
    BY <1>7 DEF SetProgress
  <2>2. progress = NoBlock /\ bigBang \in finalized
    BY <1>7 DEF NodeInv, StartUpInv, SetProgress
  <2>3. ChainShape' /\ OneBlockPerNumber' /\ NoForkedGrowth'
    BY <2>1 DEF NodeInv, ChainShape, OneBlockPerNumber, NoForkedGrowth
  <2>4. ProgressSound' /\ FailedNearProgress'
    BY <1>1, <2>1, <2>2 DEF NodeInv, ProgressSound, FailedNearProgress
  <2> QED
    BY <1>3, <1>4, <1>5, <2>3, <2>4, NoTasks DEF NodeInv
<1> QED
  BY <1>6, <1>7

LEMMA SpawnKeepsInv ==
    ASSUME NodeInv, SpawnRelayer \/ SpawnValidation
    PROVE  NodeInv'
<1> USE DEF hVars, rVars, vVars
<1>1. UNCHANGED <<dbVars, rclose, vclose, rprog, rsource, rnext, rblock,
                  vprog, vblock, vintact>>
  BY DEF SpawnRelayer, SpawnValidation
<1>2. FlagsOK'
  BY <1>1, Zenon DEF NodeInv, TypeOK, FlagsOK, SpawnRelayer, SpawnValidation
<1>3. TypeOK'
  BY <1>1, <1>2 DEF NodeInv, TypeOK, MaybeBlocks, SpawnRelayer, SpawnValidation, dbVars
<1>4. StartUpInv'
  BY <1>1 DEF NodeInv, StartUpInv, SpawnRelayer, SpawnValidation, dbVars
<1>5. RelayerInv'
  <2>1. CASE SpawnRelayer
    BY <2>1 DEF SpawnRelayer, RelayerInv
  <2>2. CASE SpawnValidation
    BY <1>1, <2>2, RelayerFrame DEF SpawnValidation, dbVars
  <2> QED
    BY <2>1, <2>2
<1>6. vpc' \in {"off", "progress", "absent"}
  BY DEF NodeInv, StartUpInv, SpawnRelayer, SpawnValidation
<1>7. ValidationInv' /\ NoLostWakeup' /\ DrainsBeforeEnding'
  BY <1>6 DEF ValidationInv, NoLostWakeup, DrainsBeforeEnding
<1> QED
  BY <1>1, <1>3, <1>4, <1>5, <1>7, DatabaseFrame DEF NodeInv

-----------------------------------------------------------------------------
(* Every step of the validation stream preserves the invariant.            *)

\* The validation stream does not disturb start-up or the relayer.
LEMMA ValidationQuiet ==
    ASSUME NodeInv, UNCHANGED <<block, finalized, vFrame>>, vpc # "off"
    PROVE  /\ StartUpInv' /\ RelayerInv' /\ main' = "run"
           /\ ChainShape' /\ OneBlockPerNumber' /\ NoForkedGrowth'
<1> USE DEF NodeInv, vFrame, mVars, hVars
<1>1. main = "run"
  BY DEF StartUpInv
<1>2. StartUpInv' /\ main' = "run"
  BY <1>1 DEF StartUpInv, rVars
<1>3. RelayerInv'
  BY RelayerFrame
<1>4. ChainShape' /\ OneBlockPerNumber' /\ NoForkedGrowth'
  BY DEF ChainShape, OneBlockPerNumber, NoForkedGrowth
<1> QED
  BY <1>2, <1>3, <1>4

\* Only the block above the progress can be next.
LEMMA NextIsUnique ==
    ASSUME NodeInv, NEW b \in finalized, progress # NoBlock,
           Number[b] = Number[progress] + 1
    PROVE  NextBlocks(progress) = {b}
  BY DEF NodeInv, ChainShape, OneBlockPerNumber, NextBlocks

\* Where there is a higher block there is a next one: the chain has no gaps.
LEMMA HeadHasNoNext ==
    ASSUME NodeInv, progress # NoBlock,
           \A b \in finalized : ~(Number[b] > Number[progress])
    PROVE  NextBlocks(progress) = {}
<1>1. finalized \subseteq Blocks /\ progress \in Blocks /\ block = finalized
  BY DEF NodeInv, TypeOK, ProgressSound, ChainShape
<1> QED
  BY <1>1, Numbers DEF NextBlocks

LEMMA ValidationReads ==
    ASSUME NodeInv,
           \/ GetLastProgress \/ GetNextBlock \/ ValidateBlock \/ MoreBlocks
           \/ AwaitNewBlock \/ ValidationFault
    PROVE  NodeInv'
<1> USE DEF dbVars, vFrame, hVars, mVars, rVars
<1>1. UNCHANGED <<dbVars, vFrame>> /\ vpc # "off"
  BY DEF GetLastProgress, GetNextBlock, ValidateBlock, MoreBlocks, AwaitNewBlock,
         ValidationFault, ValidationRecovers, NextBlockError, StateReadError
<1>2. FlagsOK'
  BY <1>1, Zenon
     DEF NodeInv, TypeOK, FlagsOK, GetLastProgress, ValidateBlock,
         MoreBlocks, AwaitNewBlock, ValidationFault, ValidationRecovers,
         NextBlockError, StateReadError, GetNextBlock, Intact
<1>3. TypeOK'
  BY <1>1, <1>2, Numbers
     DEF NodeInv, TypeOK, MaybeBlocks, GetLastProgress, GetNextBlock,
         ValidateBlock, MoreBlocks, AwaitNewBlock, ValidationFault,
         ValidationRecovers, NextBlockError, StateReadError, NextBlocks
<1>4. ValidationInv' /\ NoLostWakeup' /\ DrainsBeforeEnding'
  <2> USE <1>1 DEF ValidationInv, NoLostWakeup, DrainsBeforeEnding, RelayerEnded
  <2>0. /\ ValidationInv /\ NoLostWakeup /\ DrainsBeforeEnding
        /\ block = finalized
    BY DEF NodeInv, ChainShape
  <2>1. CASE GetLastProgress
    BY <2>0, <2>1 DEF GetLastProgress
  <2>2. CASE GetNextBlock
    BY <2>0, <2>2 DEF GetNextBlock, NextBlocks
  <2>3. CASE ValidateBlock
    BY <2>0, <2>3 DEF ValidateBlock
  <2>4. CASE MoreBlocks
    <3>1. vpc = "more" /\ progress # NoBlock /\ vblock = progress
      BY <2>0, <2>4 DEF MoreBlocks
    <3>2. vpc' = "select" => NextBlocks(progress) = {}
      BY <2>4, <3>1, HeadHasNoNext DEF MoreBlocks
    <3> QED
      BY <2>0, <2>4, <3>1, <3>2 DEF MoreBlocks, NextBlocks
  <2>5. CASE AwaitNewBlock
    BY <2>0, <2>5 DEF AwaitNewBlock, NextBlocks
  <2>6. CASE ValidationFault
    BY <2>0, <2>6 DEF ValidationFault, ValidationRecovers, NextBlockError, StateReadError
  <2> QED
    BY <2>1, <2>2, <2>3, <2>4, <2>5, <2>6
<1> QED
  BY <1>1, <1>3, <1>4, DatabaseFrame, ValidationQuiet DEF NodeInv

LEMMA ValidationRecords ==
    ASSUME NodeInv, RecordProgress \/ RecordFailed
    PROVE  NodeInv'
<1> USE DEF vFrame, hVars, mVars, rVars
<1>1. /\ UNCHANGED <<block, finalized, vFrame>>
      /\ UNCHANGED <<vprog, vblock, vintact, unseen>>
      /\ vpc \in {"record", "fail"}
  BY DEF RecordProgress, RecordFailed
<1>2. /\ progress # NoBlock /\ vblock \in finalized /\ vblock \in Blocks
      /\ progress \in Blocks /\ progress \in finalized
      /\ Number[vblock] = Number[progress] + 1
      /\ Number[vblock] \in Nat /\ Number[progress] \in Nat
  BY <1>1, Numbers DEF NodeInv, ValidationInv, TypeOK, ProgressSound
<1>3. FlagsOK'
  BY <1>1, Zenon DEF NodeInv, TypeOK, FlagsOK
<1>4. TypeOK'
  BY <1>1, <1>2, <1>3 DEF NodeInv, TypeOK, MaybeBlocks, RecordProgress, RecordFailed
<1>5. ProgressSound' /\ FailedNearProgress' /\ ValidationInv'
      /\ NoLostWakeup' /\ DrainsBeforeEnding'
  <2>1. CASE RecordProgress /\ vintact
    <3>1. progress' = vblock /\ vpc' = "more" /\ failed' = failed /\ vblock \in Valid
      BY <2>1 DEF RecordProgress, NodeInv, ValidationInv
    <3>2. ProgressSound'
      <4>1. \A n \in 1..Number[progress] :
                \E b \in finalized \cap Valid : Number[b] = n
        BY <1>2 DEF NodeInv, ProgressSound
      <4>2. \A n \in 1..Number[vblock] : n \in 1..Number[progress] \/ n = Number[vblock]
        BY <1>2
      <4> QED
        BY <1>1, <1>2, <3>1, <4>1, <4>2 DEF ProgressSound
    <3>3. FailedNearProgress'
      <4>1. FailedNearProgress /\ failed \subseteq Blocks
        BY DEF NodeInv, TypeOK
      <4>2. ASSUME NEW b \in failed
            PROVE  b \in finalized /\ Number[b] <= Number[vblock] + 1
        <5>1. b \in finalized /\ Number[b] <= Number[progress] + 1
          BY <1>2, <4>1 DEF FailedNearProgress
        <5>2. Number[b] \in Nat
          BY <4>1, Numbers
        <5> QED
          BY <1>2, <5>1, <5>2
      <4>3. vblock # NoBlock
        BY <1>2, Numbers
      <4> QED
        BY <1>1, <3>1, <4>2, <4>3 DEF FailedNearProgress
    <3>4. ValidationInv' /\ NoLostWakeup' /\ DrainsBeforeEnding'
      BY <1>1, <1>2, <3>1, Numbers DEF ValidationInv, NoLostWakeup, DrainsBeforeEnding
    <3> QED
      BY <3>2, <3>3, <3>4
  <2>2. CASE RecordProgress /\ ~vintact
    BY <1>1, <2>2 DEF RecordProgress, NodeInv, ProgressSound, FailedNearProgress,
                      ValidationInv, NoLostWakeup, DrainsBeforeEnding
  <2>3. CASE RecordFailed
    <3>1. progress' = progress /\ vpc' = "select" /\ failed' \subseteq failed \cup {vblock}
      BY <2>3 DEF RecordFailed
    <3>2. ProgressSound' /\ FailedNearProgress'
      BY <1>1, <1>2, <3>1 DEF NodeInv, ProgressSound, FailedNearProgress
    <3>3. NextBlocks(progress) = {vblock}
      BY <1>2, NextIsUnique
    <3>4. ValidationInv' /\ NoLostWakeup' /\ DrainsBeforeEnding'
      BY <1>1, <1>2, <3>1, <3>3
         DEF ValidationInv, NoLostWakeup, DrainsBeforeEnding, NextBlocks
    <3> QED
      BY <3>2, <3>4
  <2> QED
    BY <2>1, <2>2, <2>3
<1> QED
  BY <1>1, <1>4, <1>5, ValidationQuiet DEF NodeInv

-----------------------------------------------------------------------------
(* The steps of the handle, and all steps together.                        *)

LEMMA HandleKeepsInv ==
    ASSUME NodeInv, HandleStep \/ Close \/ DropHandle
    PROVE  NodeInv'
<1> USE DEF HandleStep, Join, JoinReturns, Close, CloseRelayerJoined,
            CloseValidationJoined, DropHandle
<1>1. UNCHANGED <<dbVars, mVars, rVars, vVars, unseen>>
  BY DEF hFrame
<1>2. {rclose', vclose'} \subseteq BOOLEAN
  BY Zenon DEF NodeInv, TypeOK, FlagsOK
<1>3. FlagsOK'
  BY <1>1, <1>2, Zenon DEF NodeInv, TypeOK, FlagsOK, vVars
<1>4. handle' \in {"none", "held", "joining", "closing_relayer",
                   "closing_validation", "returned", "idle"}
  OBVIOUS
<1>5. TypeOK'
  BY <1>1, <1>3, <1>4 DEF NodeInv, TypeOK, dbVars, mVars, rVars, vVars
<1>6. ~vclose' => ~vclose
  BY DEF NodeInv, TypeOK, FlagsOK
<1>7. StartUpInv' /\ ValidationInv' /\ NoLostWakeup' /\ DrainsBeforeEnding'
  BY <1>1, <1>6 DEF NodeInv, StartUpInv, ValidationInv, NoLostWakeup, RelayerEnded,
                    DrainsBeforeEnding, NextBlocks, dbVars, mVars, rVars, vVars
<1>8. RelayerInv'
  BY <1>1, RelayerFrame DEF dbVars
<1> QED
  BY <1>1, <1>5, <1>7, <1>8, DatabaseFrame DEF NodeInv

LEMMA InitHasInv == Init => NodeInv
<1> SUFFICES ASSUME Init PROVE NodeInv
  OBVIOUS
<1>1. FlagsOK
  BY Zenon DEF Init, FlagsOK
<1>2. TypeOK
  BY <1>1, Numbers DEF Init, TypeOK, MaybeBlocks
<1>3. ChainShape /\ OneBlockPerNumber /\ NoForkedGrowth /\ ProgressSound /\ FailedNearProgress
  BY DEF Init, ChainShape, OneBlockPerNumber, NoForkedGrowth, ProgressSound, FailedNearProgress
<1>4. StartUpInv /\ RelayerInv /\ ValidationInv /\ NoLostWakeup /\ DrainsBeforeEnding
  BY DEF Init, StartUpInv, RelayerInv, ValidationInv, NoLostWakeup, DrainsBeforeEnding
<1> QED
  BY <1>2, <1>3, <1>4 DEF NodeInv

LEMMA StutterKeepsInv ==
    ASSUME NodeInv, UNCHANGED vars
    PROVE  NodeInv'
<1>1. UNCHANGED <<dbVars, mVars, hVars, rVars, vVars, unseen>>
  BY DEF vars
<1>2. FlagsOK'
  BY <1>1, Zenon DEF NodeInv, TypeOK, FlagsOK, hVars, vVars
<1>3. TypeOK'
  BY <1>1, <1>2 DEF NodeInv, TypeOK, dbVars, mVars, hVars, rVars, vVars
<1>4. StartUpInv' /\ ValidationInv' /\ NoLostWakeup' /\ DrainsBeforeEnding'
  BY <1>1 DEF NodeInv, StartUpInv, ValidationInv, NoLostWakeup, RelayerEnded,
              DrainsBeforeEnding, NextBlocks, dbVars, mVars, hVars, rVars, vVars
<1>5. RelayerInv'
  BY <1>1, RelayerFrame DEF dbVars
<1> QED
  BY <1>1, <1>3, <1>4, <1>5, DatabaseFrame DEF NodeInv

LEMMA NextKeepsInv == NodeInv /\ [Next]_vars => NodeInv'
<1> SUFFICES ASSUME NodeInv, [Next]_vars PROVE NodeInv'
  OBVIOUS
<1>1. CASE BootStep \/ Start
  BY <1>1, StartUpReads, StartUpWrites, SpawnKeepsInv DEF BootStep
<1>2. CASE Exit \/ Crash
  BY <1>2, HaltKeepsInv DEF Exit, Crash
<1>3. CASE RelayerStep \/ RelayerFault
  BY <1>3, RelayerReads, RelayerWrites, RelayerNotifies DEF RelayerStep
<1>4. CASE ValidationStep \/ ValidationFault
  BY <1>4, ValidationReads, ValidationRecords DEF ValidationStep
<1>5. CASE HandleStep \/ Close \/ DropHandle
  BY <1>5, HandleKeepsInv
<1>6. CASE UNCHANGED vars
  BY <1>6, StutterKeepsInv
<1> QED
  BY <1>1, <1>2, <1>3, <1>4, <1>5, <1>6 DEF Next, CodeStep, EnvStep

-----------------------------------------------------------------------------
(* The theorems.                                                           *)

\* The invariant that every task relies on holds in every reachable state.
THEOREM Invariance == Spec => []NodeInv
  BY InitHasInv, NextKeepsInv, PTL DEF Spec

\* The state stays well-typed: in particular the expected block number never
\* leaves 0..MaxWord, because sync_blocks saturates it.
THEOREM TypeCorrect == Spec => []TypeOK
<1>1. NodeInv => TypeOK
  BY DEF NodeInv
<1> QED
  BY <1>1, Invariance, PTL

\* The block table, which has no such constraint, holds one block per number,
\* so get_next_block never reports a fork, whatever the sources serve.
THEOREM NoForkInDatabase == Spec => []OneBlockPerNumber
<1>1. NodeInv => OneBlockPerNumber
  BY DEF NodeInv
<1> QED
  BY <1>1, Invariance, PTL

\* check_block_fork keeps a chain from being continued by a source that does
\* not have its tip.
THEOREM GrowthIsServed == Spec => []NoForkedGrowth
<1>1. NodeInv => NoForkedGrowth
  BY DEF NodeInv
<1> QED
  BY <1>1, Invariance, PTL

\* Validation skips no block: what lies between block 0 and the progress is
\* finalized and valid, across crashes, retries and restarts.
THEOREM ValidatedPrefix == Spec => []ProgressSound
<1>1. NodeInv => ProgressSound
  BY DEF NodeInv
<1> QED
  BY <1>1, Invariance, PTL

\* A block recorded as failed is never further ahead than the next block.
THEOREM FailedBound == Spec => []FailedNearProgress
<1>1. NodeInv => FailedNearProgress
  BY DEF NodeInv
<1> QED
  BY <1>1, Invariance, PTL

\* The watch channel loses no wake-up: a waiting validation stream has work
\* only if a notification is under way.
THEOREM WakeupsArrive == Spec => []NoLostWakeup
<1>1. NodeInv => NoLostWakeup
  BY DEF NodeInv
<1> QED
  BY <1>1, Invariance, PTL

\* A validation stream ended by the end of the relayer left nothing behind.
THEOREM ChannelIsDrained == Spec => []DrainsBeforeEnding
<1>1. NodeInv => DrainsBeforeEnding
  BY DEF NodeInv
<1> QED
  BY <1>1, Invariance, PTL

-----------------------------------------------------------------------------
(* While state can be read, only invalid blocks fail.                      *)

\* FailedAreInvalid, from the verdict on.
FailInv ==
    /\ FailedAreInvalid
    /\ vpc = "fail" /\ vintact => vblock \notin Valid

\* The steps of the validation stream: a verdict is recorded for the block it
\* is about.
LEMMA ValidationKeepsFailed ==
    ASSUME FailInv, ~StateReadsFail, ValidationStep \/ ValidationFault
    PROVE  FailInv'
<1> USE DEF dbVars, vFrame
<1>1. CASE GetLastProgress \/ GetNextBlock \/ MoreBlocks \/ AwaitNewBlock
  BY <1>1 DEF GetLastProgress, GetNextBlock, MoreBlocks, AwaitNewBlock, FailInv, FailedAreInvalid
<1>2. CASE ValidateBlock
  BY <1>2 DEF ValidateBlock, FailInv, FailedAreInvalid
<1>3. CASE RecordProgress
  BY <1>3 DEF RecordProgress, FailInv, FailedAreInvalid
<1>4. CASE RecordFailed
  BY <1>4 DEF RecordFailed, FailInv, FailedAreInvalid
<1>5. CASE ValidationFault
  BY <1>5 DEF ValidationFault, ValidationRecovers, NextBlockError, StateReadError, FailInv,
              FailedAreInvalid
<1> QED
  BY <1>1, <1>2, <1>3, <1>4, <1>5 DEF ValidationStep

\* All others leave the verdict alone, or end the stream.
LEMMA OthersKeepFailed ==
    ASSUME FailInv, [Next]_vars, ~ValidationStep, ~ValidationFault
    PROVE  FailInv'
<1> USE DEF dbVars, vVars
<1>1. SUFFICES failed' = failed /\ (UNCHANGED vVars \/ vpc' # "fail")
  BY DEF FailInv, FailedAreInvalid
<1>2. CASE BootStep \/ Start
  BY <1>2 DEF BootStep, Start, ListFirstBlock, InsertBigBang, InsertAndFinalize, ReadProgress,
              SetProgress, SpawnRelayer, SpawnValidation, Halt
<1>3. CASE Exit \/ Crash
  BY <1>3 DEF Exit, Crash, Halt
<1>4. CASE RelayerStep \/ RelayerFault
  BY <1>4 DEF RelayerStep, GetBlockProgress, StreamBlocks, CheckBlockFork, ReceiveBlock,
              WriteBlock, InsertAndFinalize, NotifyBlock, RelayerShutdown, RelayerFault,
              ConnectFails, RelayerRecovers, SourceEnds, RelayerDbError, rFrame
<1>5. CASE HandleStep \/ Close \/ DropHandle
  BY <1>5 DEF HandleStep, Join, JoinReturns, Close, CloseRelayerJoined, CloseValidationJoined,
              DropHandle, hFrame
<1>6. CASE UNCHANGED vars
  BY <1>6 DEF vars
<1> QED
  BY <1>2, <1>3, <1>4, <1>5, <1>6 DEF Next, CodeStep, EnvStep

\* As long as no state read fails, insert_failed_block only ever records blocks
\* that do not satisfy their predicates, across crashes, retries and blocks
\* that did not read back intact.
THEOREM OnlyInvalidBlocksFail ==
    ASSUME ~StateReadsFail
    PROVE  Spec => []FailedAreInvalid
<1>1. Init => FailInv
  BY DEF Init, FailInv, FailedAreInvalid
<1>2. FailInv /\ [Next]_vars => FailInv'
  BY ValidationKeepsFailed, OthersKeepFailed
<1>3. FailInv => FailedAreInvalid
  BY DEF FailInv
<1> QED
  BY <1>1, <1>2, <1>3, PTL DEF Spec

-----------------------------------------------------------------------------
(* The node implements the abstract chain.                                 *)

\* Steps that finalize a block extend the abstract chain.
LEMMA FinalizeImplements ==
    ASSUME NodeInv, InsertBigBang \/ WriteBlock
    PROVE  [Abstract!Next]_(Abstract!vars)
<1> USE DEF Abstract!Next, Abstract!Finalize, Abstract!Extends, Abstract!vars
<1>1. CASE InsertBigBang
  <2>1. finalized = {} /\ bigBang \in Blocks /\ Number[bigBang] = 0
    BY <1>1, Numbers DEF InsertBigBang, NodeInv, StartUpInv
  <2>2. finalized' = finalized \cup {bigBang} /\ progress' = progress
    BY <1>1 DEF InsertBigBang, InsertAndFinalize
  <2>3. Abstract!Finalize(bigBang)
    BY <2>1, <2>2
  <2> QED
    BY <2>1, <2>3
<1>2. CASE WriteBlock /\ NumberTaken(rblock)
  BY <1>2 DEF WriteBlock, dbVars
<1>3. CASE WriteBlock /\ ~NumberTaken(rblock)
  <2>1. /\ rblock \in Blocks
        /\ \A c \in finalized : Number[c] < Number[rblock]
        /\ \/ Number[rblock] = 0
           \/ \E c \in finalized : Number[rblock] = Number[c] + 1
    BY <1>3, WrittenBlockExtends DEF WriteBlock
  <2>2. finalized' = finalized \cup {rblock} /\ progress' = progress
    BY <1>3 DEF WriteBlock, InsertAndFinalize
  <2>3. Abstract!Finalize(rblock)
    BY <2>1, <2>2
  <2> QED
    BY <2>1, <2>3
<1> QED
  BY <1>1, <1>2, <1>3

\* Steps that write the validation progress begin or extend the validated
\* prefix.
LEMMA ProgressImplements ==
    ASSUME NodeInv, SetProgress \/ RecordProgress
    PROVE  [Abstract!Next]_(Abstract!vars)
<1>1. CASE SetProgress
  <2>1. /\ progress = NoBlock /\ bigBang \in finalized
        /\ bigBang \in Blocks /\ Number[bigBang] = 0
    BY <1>1, Numbers DEF SetProgress, NodeInv, StartUpInv
  <2>2. Abstract!Begin(bigBang)
    BY <1>1, <2>1 DEF SetProgress, Abstract!Begin
  <2> QED
    BY <2>1, <2>2 DEF Abstract!Next
<1>2. CASE RecordProgress /\ vintact
  <2>1. /\ progress # NoBlock /\ vblock \in finalized /\ vblock \in Valid
        /\ vblock \in Blocks /\ Number[vblock] = Number[progress] + 1
    BY <1>2 DEF RecordProgress, NodeInv, ValidationInv, TypeOK
  <2>2. progress' = vblock /\ finalized' = finalized
    BY <1>2 DEF RecordProgress
  <2>3. Abstract!Validate(vblock)
    BY <2>1, <2>2 DEF Abstract!Validate
  <2> QED
    BY <2>1, <2>3 DEF Abstract!Next
<1>3. CASE RecordProgress /\ ~vintact
  BY <1>3 DEF RecordProgress, Abstract!vars
<1> QED
  BY <1>1, <1>2, <1>3

\* Every other step leaves the chain and its validated prefix alone.
LEMMA OthersStutter ==
    ASSUME [Next]_vars, ~InsertBigBang, ~WriteBlock, ~SetProgress, ~RecordProgress
    PROVE  UNCHANGED <<finalized, progress>>
<1> USE DEF dbVars
<1>1. CASE BootStep \/ Start
  BY <1>1 DEF BootStep, Start, ListFirstBlock, ReadProgress, SpawnRelayer,
              SpawnValidation, Halt
<1>2. CASE Exit \/ Crash
  BY <1>2 DEF Exit, Crash, Halt
<1>3. CASE RelayerStep \/ RelayerFault
  BY <1>3 DEF RelayerStep, GetBlockProgress, StreamBlocks, CheckBlockFork,
              ReceiveBlock, NotifyBlock, RelayerShutdown, RelayerFault,
              ConnectFails, RelayerRecovers, SourceEnds, RelayerDbError
<1>4. CASE ValidationStep \/ ValidationFault
  BY <1>4 DEF ValidationStep, GetLastProgress, GetNextBlock, ValidateBlock,
              MoreBlocks, RecordFailed, AwaitNewBlock, ValidationFault,
              ValidationRecovers, NextBlockError, StateReadError
<1>5. CASE HandleStep \/ Close \/ DropHandle
  BY <1>5 DEF HandleStep, Join, JoinReturns, Close, CloseRelayerJoined,
              CloseValidationJoined, DropHandle, hFrame
<1>6. CASE UNCHANGED vars
  BY <1>6 DEF vars
<1> QED
  BY <1>1, <1>2, <1>3, <1>4, <1>5, <1>6 DEF Next, CodeStep, EnvStep

\* The node, with its crashes, retries and interleavings, implements the
\* abstract chain: its finalized blocks and its validation progress only ever
\* grow, by one extending block or one valid block at a time.
THEOREM Refinement == Spec => ChainSpec
<1>1. Init => Abstract!Init
  BY DEF Init, Abstract!Init
<1>2. NodeInv /\ [Next]_vars => [Abstract!Next]_(Abstract!vars)
  BY FinalizeImplements, ProgressImplements, OthersStutter DEF Abstract!vars
<1> QED
  BY <1>1, <1>2, Invariance, PTL DEF Spec, ChainSpec, Abstract!Spec
=============================================================================
