------------------------------ MODULE BestChain ------------------------------
(***************************************************************************)
(* Best-chain selection of main.cpp: AddToBlockIndex, ActivateBestChain,   *)
(* FindMostWorkChain, ConnectTip, DisconnectTip, InvalidBlockFound and the *)
(* part of LoadBlockIndexDB that rebuilds this state after a restart.      *)
(*                                                                         *)
(* All of it runs under cs_main.  The loops are split into one action per  *)
(* iteration, because the blocks found invalid on the way, I/O failures    *)
(* and assertions interrupt them half way.                                 *)
(*                                                                         *)
(* A block index entry is named by its address (a natural number), which   *)
(* is the last tie breaker of CBlockIndexWorkComparator.  Transactions are *)
(* abstracted to the verdict ConnectBlock reaches on the block:            *)
(*   "ok"       it connects                                                *)
(*   "invalid"  state.DoS/Invalid: the block violates a consensus rule     *)
(*   "corrupt"  the same, with corruptionPossible set                      *)
(*   "silent"   a bare "return false": version below the fork's minimum,   *)
(*              or an SSF update flag at the wrong height                  *)
(* A CChain is abstracted to its tip; anc[t] is the set of entries that    *)
(* walking pprev from t visits.                                            *)
(***************************************************************************)
EXTENDS Integers, FiniteSets

CONSTANTS
  Block,       \* addresses of block index entries
  Genesis,
  Works,       \* GetBlockWork() of a block
  Verdicts,    \* the verdicts that occur
  ReadErrors,  \* whether ReadBlockFromDisk or the undo data can fail
  MaxFaults    \* bound: failed writes

Null == -1
AllVerdicts == {"ok", "invalid", "corrupt", "silent"}

ASSUME BestChainAssumption ==
  /\ Block \subseteq Nat
  /\ Genesis \in Block
  /\ Works \subseteq Nat \ {0}
  /\ Verdicts \subseteq AllVerdicts
  /\ ReadErrors \in BOOLEAN
  /\ MaxFaults \in Nat

VARIABLES
  mapBlockIndex,       \* the known blocks
  pprev, nHeight, nChainWork, anc, verdict,
  nSequenceId,         \* order of arrival; 0 for blocks loaded from disk
  nBlockSequenceId,
  failedValid,         \* blocks with BLOCK_FAILED_VALID
  failedChild,         \* blocks with BLOCK_FAILED_CHILD
  setBlockIndexValid,
  pindexBestInvalid,
  chainActive,         \* tip of the active chain
  chainMostWork,       \* tip of the candidate chain, Null while empty
  coinsBest,           \* pcoinsTip->GetBestBlock()
  pc,
  result,              \* what the last ActivateBestChain returned; "ioerror" is
                       \* "false" after a failed read or write
  faults               \* failed writes so far

treeVars == <<mapBlockIndex, pprev, nHeight, nChainWork, anc, verdict,
              nSequenceId, nBlockSequenceId>>
flagVars == <<failedValid, failedChild, setBlockIndexValid, pindexBestInvalid>>
runVars == <<pc, result, faults>>
vars == <<treeVars, flagVars, chainActive, chainMostWork, coinsBest, runVars>>

failed == failedValid \cup failedChild          \* BLOCK_FAILED_MASK
Chain(t) == IF t = Null THEN {} ELSE anc[t]
Contains(t, b) == b \in Chain(t)                \* CChain::Contains

\* CBlockIndexWorkComparator: a sorts before b.
Worse(a, b) ==
  \/ nChainWork[a] < nChainWork[b]
  \/ /\ nChainWork[a] = nChainWork[b]
     /\ \/ nSequenceId[a] > nSequenceId[b]
        \/ nSequenceId[a] = nSequenceId[b] /\ a > b

\* Mutant: the longest chain instead of the one with the most work.
IsBest_Longest(c, S) == c \in S /\ \A d \in S : nHeight[d] <= nHeight[c]

\* *setBlockIndexValid.rbegin()
IsBest(c, S) == c \in S /\ \A d \in S : d = c \/ Worse(d, c)

\* "if (!pindexBestInvalid || b has more work) pindexBestInvalid = b"
BestInvalid(cur, b) ==
  IF cur = Null \/ nChainWork[b] > nChainWork[cur] THEN b ELSE cur

\* A block tree holding just the connected genesis block.
Init ==
  /\ mapBlockIndex = {Genesis}
  /\ pprev = [b \in Block |-> Null]
  /\ nHeight = [b \in Block |-> 0]
  /\ nChainWork = [b \in Block |-> 1]
  /\ anc = [b \in Block |-> {b}]
  /\ verdict = [b \in Block |-> "ok"]
  /\ nSequenceId = [b \in Block |-> IF b = Genesis THEN 1 ELSE 0]
  /\ nBlockSequenceId = 2
  /\ failedValid = {} /\ failedChild = {}
  /\ setBlockIndexValid = {Genesis}
  /\ pindexBestInvalid = Null
  /\ chainActive = Genesis /\ chainMostWork = Genesis /\ coinsBest = Genesis
  /\ pc = "idle" /\ result = "true" /\ faults = 0

Goto(l) == pc' = l /\ UNCHANGED <<result, faults>>
Return(r) == pc' = "idle" /\ result' = r /\ UNCHANGED faults

\* A write that fails: the caller returns false and a shutdown is requested.
WriteFault == /\ faults < MaxFaults
              /\ faults' = faults + 1
              /\ pc' = "idle" /\ result' = "ioerror"

\* ActivateBestChain is entered.
Activate == pc' = "pop" /\ result' = "none" /\ UNCHANGED faults

\* A new block b on top of p enters the index and the candidate set; unless
\* WriteBlockIndex fails, ActivateBestChain follows.
AddToBlockIndex(b, p, w, v) ==
  /\ pc = "idle"
  /\ b \notin mapBlockIndex /\ p \in mapBlockIndex
  /\ mapBlockIndex' = mapBlockIndex \cup {b}
  /\ pprev' = [pprev EXCEPT ![b] = p]
  /\ nHeight' = [nHeight EXCEPT ![b] = nHeight[p] + 1]
  /\ nChainWork' = [nChainWork EXCEPT ![b] = nChainWork[p] + w]
  /\ anc' = [anc EXCEPT ![b] = anc[p] \cup {b}]
  /\ verdict' = [verdict EXCEPT ![b] = v]
  /\ nSequenceId' = [nSequenceId EXCEPT ![b] = nBlockSequenceId]
  /\ nBlockSequenceId' = nBlockSequenceId + 1
  /\ setBlockIndexValid' = setBlockIndexValid \cup {b}
  /\ Activate \/ WriteFault
  /\ UNCHANGED <<failedValid, failedChild, pindexBestInvalid, chainActive,
                 chainMostWork, coinsBest>>

-----------------------------------------------------------------------------
(* FindMostWorkChain *)

\* "In case the current best is invalid, do not consider it."
PopInvalidTip ==
  /\ pc = "pop"
  /\ chainMostWork \in failed
  /\ setBlockIndexValid' = setBlockIndexValid \ {chainMostWork}
  /\ chainMostWork' = pprev[chainMostWork]
  /\ UNCHANGED <<treeVars, failedValid, failedChild, pindexBestInvalid,
                 chainActive, coinsBest, runVars>>

PopDone ==
  /\ pc = "pop"
  /\ chainMostWork \notin failed
  /\ Goto("pick")
  /\ UNCHANGED <<treeVars, flagVars, chainActive, chainMostWork, coinsBest>>

\* The failed entries met on the walk from c down to the active chain.
InvalidAncestors(c) == (anc[c] \ Chain(chainActive)) \cap failed

\* Mutant: the walk that flags the candidate's chain does not stop at t.
RejectCandidate_WholeChain ==
  /\ pc = "pick"
  /\ \E c \in setBlockIndexValid :
       /\ IsBest(c, setBlockIndexValid)
       /\ InvalidAncestors(c) # {}
       /\ failedChild' = failedChild \cup anc[c]
       /\ setBlockIndexValid' = setBlockIndexValid \ anc[c]
       /\ pindexBestInvalid' = BestInvalid(pindexBestInvalid, c)
  /\ UNCHANGED <<treeVars, failedValid, chainActive, chainMostWork, coinsBest,
                 runVars>>

\* The candidate c has an invalid ancestor; t is the first one the walk meets.
\* Everything above t is flagged and leaves the set.
RejectCandidate ==
  /\ pc = "pick"
  /\ \E c \in setBlockIndexValid :
       /\ IsBest(c, setBlockIndexValid)
       /\ \E t \in InvalidAncestors(c) :
            /\ \A u \in InvalidAncestors(c) : nHeight[u] <= nHeight[t]
            /\ failedChild' = failedChild \cup (anc[c] \ anc[t])
            /\ setBlockIndexValid' = setBlockIndexValid \ (anc[c] \ anc[t])
       /\ pindexBestInvalid' = BestInvalid(pindexBestInvalid, c)
  /\ UNCHANGED <<treeVars, failedValid, chainActive, chainMostWork, coinsBest,
                 runVars>>

\* The best candidate without an invalid ancestor replaces chainMostWork if it
\* is an improvement.  (The set is never empty: it holds the active tip.)
ChooseCandidate ==
  /\ pc = "pick"
  /\ \E c \in setBlockIndexValid :
       /\ IsBest(c, setBlockIndexValid)
       /\ InvalidAncestors(c) = {}
       /\ chainMostWork' = IF chainMostWork # Null /\ ~Worse(chainMostWork, c)
                             THEN chainMostWork ELSE c
  /\ Goto("disconnect")
  /\ UNCHANGED <<treeVars, flagVars, chainActive, coinsBest>>

-----------------------------------------------------------------------------
(* DisconnectTip and ConnectTip.  ReadErrors covers a block or undo data   *)
(* that cannot be read; the functions then return false.                   *)

ReadFault ==
  /\ ReadErrors
  /\ Return("ioerror")
  /\ UNCHANGED <<treeVars, flagVars, chainActive, chainMostWork, coinsBest>>

\* One iteration of "Disconnect active blocks which are no longer in the best
\* chain".  The coins view is flushed to pcoinsTip before WriteChainState, so a
\* failure there leaves chainActive behind.
DisconnectTip ==
  /\ pc = "disconnect"
  /\ ~Contains(chainMostWork, chainActive)
  /\ \/ ReadFault
     \/ /\ coinsBest = chainActive               \* assert in DisconnectBlock
        /\ coinsBest' = pprev[chainActive]
        /\ \/ chainActive' = pprev[chainActive] /\ UNCHANGED runVars
           \/ chainActive' = chainActive /\ WriteFault
        /\ UNCHANGED <<treeVars, flagVars, chainMostWork>>

DisconnectDone ==
  /\ pc = "disconnect"
  /\ Contains(chainMostWork, chainActive)
  /\ Goto("connect")
  /\ UNCHANGED <<treeVars, flagVars, chainActive, chainMostWork, coinsBest>>

\* chainMostWork[chainActive.Height() + 1]
IsNextToConnect(b) == /\ pc = "connect"
                      /\ ~Contains(chainActive, chainMostWork)
                      /\ Contains(chainMostWork, b)
                      /\ nHeight[b] = nHeight[chainActive] + 1

\* ConnectBlock succeeds; as above for WriteChainState.
ConnectValid(b) ==
  /\ coinsBest = pprev[b]                        \* assert in ConnectBlock
  /\ verdict[b] = "ok"
  /\ coinsBest' = b
  /\ \/ chainActive' = b /\ UNCHANGED runVars
     \/ chainActive' = chainActive /\ WriteFault
  /\ UNCHANGED <<treeVars, flagVars, chainMostWork>>

\* Mutant: fComplete is not reset, so the outer loop ends here.
ConnectInvalid_Complete(b) ==
  /\ verdict[b] = "invalid"
  /\ failedValid' = failedValid \cup {b}
  /\ setBlockIndexValid' = setBlockIndexValid \ {b}
  /\ pindexBestInvalid' =
       BestInvalid(BestInvalid(pindexBestInvalid, b), chainMostWork)
  /\ Return("true")
  /\ UNCHANGED <<treeVars, failedChild, chainActive, chainMostWork, coinsBest>>

\* Mutant: the block is flagged but stays in the candidate set.
ConnectInvalid_NoErase(b) ==
  /\ verdict[b] = "invalid"
  /\ failedValid' = failedValid \cup {b}
  /\ pindexBestInvalid' =
       BestInvalid(BestInvalid(pindexBestInvalid, b), chainMostWork)
  /\ Goto("pop")
  /\ UNCHANGED <<treeVars, failedChild, setBlockIndexValid, chainActive,
                 chainMostWork, coinsBest>>

\* Mutant: InvalidBlockFound is not called.
ConnectInvalid_NoFlag(b) ==
  /\ verdict[b] = "invalid"
  /\ pindexBestInvalid' = BestInvalid(pindexBestInvalid, chainMostWork)
  /\ Goto("pop")
  /\ UNCHANGED <<treeVars, failedValid, failedChild, setBlockIndexValid,
                 chainActive, chainMostWork, coinsBest>>

\* InvalidBlockFound(b), then InvalidChainFound(chainMostWork.Tip()).
ConnectInvalid(b) ==
  /\ coinsBest = pprev[b]
  /\ verdict[b] = "invalid"
  /\ failedValid' = failedValid \cup {b}
  /\ setBlockIndexValid' = setBlockIndexValid \ {b}
  /\ pindexBestInvalid' =
       BestInvalid(BestInvalid(pindexBestInvalid, b), chainMostWork)
  /\ Goto("pop")
  /\ UNCHANGED <<treeVars, failedChild, chainActive, chainMostWork, coinsBest>>

\* Mutant: InvalidBlockFound ignores CorruptionPossible.
ConnectCorrupt_Flag(b) ==
  /\ verdict[b] = "corrupt"
  /\ failedValid' = failedValid \cup {b}
  /\ setBlockIndexValid' = setBlockIndexValid \ {b}
  /\ Goto("pop")
  /\ UNCHANGED <<treeVars, failedChild, pindexBestInvalid, chainActive,
                 chainMostWork, coinsBest>>

\* CorruptionPossible: nothing is marked and the outer loop runs again.
ConnectCorrupt(b) ==
  /\ verdict[b] = "corrupt"
  /\ Goto("pop")
  /\ UNCHANGED <<treeVars, flagVars, chainActive, chainMostWork, coinsBest>>

\* A bare "return false" takes the branch for system errors.
ConnectSilent(b) ==
  /\ verdict[b] = "silent"
  /\ Return("false")
  /\ UNCHANGED <<treeVars, flagVars, chainActive, chainMostWork, coinsBest>>

ConnectTip ==
  \E b \in mapBlockIndex :
    /\ IsNextToConnect(b)
    /\ \/ ReadFault
       \/ ConnectValid(b)
       \/ ConnectInvalid(b)
       \/ ConnectCorrupt(b)
       \/ ConnectSilent(b)

\* The assertions on view.GetBestBlock() in DisconnectBlock and ConnectBlock.
\* ConnectBlock's "corrupt" and "silent" verdicts come before its assertion.
AssertFails ==
  /\ \/ /\ pc = "disconnect" /\ ~Contains(chainMostWork, chainActive)
        /\ coinsBest # chainActive
     \/ \E b \in mapBlockIndex : /\ IsNextToConnect(b)
                                 /\ verdict[b] \in {"ok", "invalid"}
                                 /\ coinsBest # pprev[b]
  /\ Goto("aborted")
  /\ UNCHANGED <<treeVars, flagVars, chainActive, chainMostWork, coinsBest>>

ConnectDone ==
  /\ pc = "connect"
  /\ Contains(chainActive, chainMostWork)
  /\ Return("true")
  /\ UNCHANGED <<treeVars, flagVars, chainActive, chainMostWork, coinsBest>>

\* A clean shutdown and LoadBlockIndexDB, then the call of ActivateBestChain in
\* AppInit2.  BLOCK_FAILED_CHILD is never written to the index, and every
\* sequence number is 0.  What a failed write leaves on disk is not modelled
\* here.
LoadBlockIndexDB ==
  /\ pc = "idle" /\ faults = 0
  /\ nSequenceId' = [b \in Block |-> 0]
  /\ nBlockSequenceId' = 1
  /\ failedChild' = {}
  /\ setBlockIndexValid' = mapBlockIndex \ failedValid
  /\ \/ failedValid = {} /\ pindexBestInvalid' = Null
     \/ \E i \in failedValid :
          /\ \A j \in failedValid : nChainWork[j] <= nChainWork[i]
          /\ pindexBestInvalid' = i
  /\ chainActive' = coinsBest
  /\ chainMostWork' = Null
  /\ Activate
  /\ UNCHANGED <<mapBlockIndex, pprev, nHeight, nChainWork, anc, verdict,
                 failedValid, coinsBest>>

ActivateStep ==
  \/ PopInvalidTip \/ PopDone \/ RejectCandidate \/ ChooseCandidate
  \/ DisconnectTip \/ DisconnectDone \/ ConnectTip \/ AssertFails \/ ConnectDone

Next ==
  \/ \E b \in Block, p \in mapBlockIndex, w \in Works, v \in Verdicts :
       AddToBlockIndex(b, p, w, v)
  \/ ActivateStep
  \/ LoadBlockIndexDB

Spec == Init /\ [][Next]_vars

\* The thread inside ActivateBestChain holds cs_main and keeps running.
FairSpec == Spec /\ WF_vars(ActivateStep)
-----------------------------------------------------------------------------
(***************************************************************************)
(* Properties                                                              *)
(***************************************************************************)
Labels == {"idle", "pop", "pick", "disconnect", "connect", "aborted"}

\* Types of the index entries, the flags and the chains' tips.
TypeOK ==
  /\ mapBlockIndex \subseteq Block /\ Genesis \in mapBlockIndex
  /\ pprev \in [Block -> mapBlockIndex \cup {Null}]
  /\ nHeight \in [Block -> Nat]
  /\ nChainWork \in [Block -> Nat]
  /\ anc \in [Block -> SUBSET Block]
  /\ verdict \in [Block -> AllVerdicts]
  /\ nSequenceId \in [Block -> Nat] /\ nBlockSequenceId \in Nat
  /\ failedValid \subseteq mapBlockIndex /\ failedChild \subseteq mapBlockIndex
  /\ setBlockIndexValid \subseteq mapBlockIndex
  /\ pindexBestInvalid \in mapBlockIndex \cup {Null}
  /\ chainActive \in mapBlockIndex
  /\ chainMostWork \in mapBlockIndex \cup {Null}
  /\ coinsBest \in mapBlockIndex
  /\ pc \in Labels /\ result \in {"none", "true", "false", "ioerror"}
  /\ faults \in Nat

ValidChain(b) == \A a \in anc[b] : verdict[a] = "ok"

\* "We know all blocks in it are valid already" (FindMostWorkChain stops its
\* search for failed blocks at the active chain): no block of the active chain
\* is invalid or carries a failure flag, half-way through a reorganisation too.
ActiveChainValid == ValidChain(chainActive) /\ anc[chainActive] \cap failed = {}

\* A flag never hits a good chain: a flagged block is a consensus violation
\* itself or descends from one.  A wrong flag would survive in the index and
\* cut the node off from the network for good.
FailedOnlyIfInvalid ==
  \A b \in failed : \E a \in anc[b] : a \in failedValid /\ verdict[a] = "invalid"

\* setBlockIndexValid "must contain those who aren't failed"; and it holds no
\* flagged block, or the loop of FindMostWorkChain would pick it for ever (it
\* erases only what lies above the flagged ancestor).
CandidatesExact == setBlockIndexValid = mapBlockIndex \ failed

\* A successful activation ends on the best valid chain: no known chain of
\* valid blocks has more work, or as much work and an earlier arrival.
BestValidChainActive ==
  pc = "idle" /\ result = "true" =>
    \A b \in mapBlockIndex : ValidChain(b) => ~Worse(chainActive, b)

\* As long as no write fails, the coins in pcoinsTip are those of the active tip,
\* also between the steps of a reorganisation and after a restart.
CoinsMatchTip == faults = 0 => coinsBest = chainActive

\* A block is disconnected only on the way to a better chain, also when the
\* chain it belongs to was itself left unfinished after an invalid block.
DisconnectOnlyForBetter ==
  [][ pc = "disconnect" /\ chainActive' # chainActive
        => Worse(chainActive, chainMostWork) ]_vars

\* ActivateBestChain returns (it holds cs_main) however invalid blocks, read
\* errors and a failed write interrupt it, unless an assertion aborts the
\* process.  The exception is a block that ConnectBlock reports as possibly
\* corrupt: it is neither flagged nor left out, and the outer loop tries it
\* again and again.
ActivationReturns ==
  pc # "idle" ~> \/ pc \in {"idle", "aborted"}
                 \/ \E b \in mapBlockIndex : verdict[b] = "corrupt"

\* The comment in ActivateBestChain: "A system error occurred (disk space,
\* database error, ...)" when it returns false.
FalseOnlyOnSystemError == result # "false"
=============================================================================
