--------------------------- MODULE BestChainProofs ---------------------------
(***************************************************************************)
(* Proofs about BestChain, for every set of blocks, every tree that can    *)
(* grow out of it, every verdict and every I/O failure.                    *)
(*                                                                         *)
(* The inductive invariant IInv adds to the properties of BestChain what   *)
(* the code takes for granted of a CChain: that walking pprev from an      *)
(* entry visits a linear order of entries, one for each height (TreeInv),  *)
(* and what FindMostWorkChain has established by the time blocks are       *)
(* connected (SearchInv).                                                  *)
(***************************************************************************)
EXTENDS BestChain, TLAPS

\* What holds of the index entry b and the entries below it.
EntryInv(b) ==
  /\ b \in anc[b] /\ Genesis \in anc[b]
  /\ anc[b] \subseteq mapBlockIndex
  /\ \A a \in anc[b] : anc[a] \subseteq anc[b]
  /\ \A a \in anc[b] : a = b \/ nHeight[a] < nHeight[b]
  /\ \A a, c \in anc[b] : a \in anc[c] \/ c \in anc[a]
  /\ b # Genesis => /\ pprev[b] \in mapBlockIndex
                    /\ anc[b] = anc[pprev[b]] \cup {b}
                    /\ nHeight[b] = nHeight[pprev[b]] + 1

TreeInv ==
  /\ \A b \in mapBlockIndex : EntryInv(b)
  /\ anc[Genesis] = {Genesis} /\ nHeight[Genesis] = 0 /\ verdict[Genesis] = "ok"

\* Once FindMostWorkChain is done, no valid chain beats chainMostWork; the
\* disconnect loop ends on it.
SearchInv ==
  /\ pc \in {"disconnect", "connect"} =>
       /\ chainMostWork # Null
       /\ \A b \in mapBlockIndex : ValidChain(b) => ~Worse(chainMostWork, b)
  /\ pc = "connect" => Contains(chainMostWork, chainActive)

IInv ==
  /\ TypeOK /\ TreeInv
  /\ FailedOnlyIfInvalid /\ CandidatesExact /\ ActiveChainValid /\ CoinsMatchTip
  /\ SearchInv /\ BestValidChainActive

-----------------------------------------------------------------------------
(* CBlockIndexWorkComparator is a strict total order on index entries.     *)

\* No two entries sort before one another.
LEMMA WorseAsymmetric ==
  ASSUME TypeOK, NEW a \in Block, NEW b \in Block, Worse(a, b)
  PROVE  ~Worse(b, a)
BY BestChainAssumption DEF TypeOK, Worse

\* The comparator is transitive.
LEMMA WorseTransitive ==
  ASSUME TypeOK, NEW a \in Block, NEW b \in Block, NEW c \in Block,
         Worse(a, b), Worse(b, c)
  PROVE  Worse(a, c)
BY BestChainAssumption DEF TypeOK, Worse

\* Two different entries are always ordered: the address breaks the last tie.
LEMMA WorseTotal ==
  ASSUME TypeOK, NEW a \in Block, NEW b \in Block
  PROVE  a = b \/ Worse(a, b) \/ Worse(b, a)
BY BestChainAssumption DEF TypeOK, Worse

\* Null is no entry's address.
LEMMA NullNotBlock == Null \notin Block
BY BestChainAssumption DEF Null

\* chainMostWork[chainActive.Height() + 1] is a child of the active tip: the
\* assertion pindexNew->pprev == chainActive.Tip() of ConnectTip holds.
LEMMA NextToConnectIsChild ==
  ASSUME TypeOK, TreeInv, SearchInv, NEW b \in mapBlockIndex, IsNextToConnect(b)
  PROVE  /\ b # Genesis /\ pprev[b] = chainActive
         /\ anc[b] = anc[chainActive] \cup {b}
         /\ b \notin anc[chainActive]
<1>1. /\ chainMostWork \in mapBlockIndex
      /\ b \in anc[chainMostWork] /\ chainActive \in anc[chainMostWork]
      /\ nHeight[b] = nHeight[chainActive] + 1
  BY DEF IsNextToConnect, SearchInv, Contains, Chain, TypeOK
<1>2. /\ chainActive \in Block /\ b \in Block
      /\ nHeight[chainActive] \in Nat /\ nHeight[b] \in Nat
  BY DEF TypeOK
<1>3. b # Genesis
  BY <1>1, <1>2 DEF TreeInv
<1>4. EntryInv(b) /\ EntryInv(chainActive) /\ EntryInv(chainMostWork)
  BY <1>1 DEF TreeInv, TypeOK
<1>5. b \notin anc[chainActive]
  BY <1>1, <1>2, <1>4 DEF EntryInv
<1>6. chainActive \in anc[b]
  BY <1>1, <1>4, <1>5 DEF EntryInv
<1>7. chainActive # b
  BY <1>1, <1>2
<1>8. /\ pprev[b] \in mapBlockIndex /\ chainActive \in anc[pprev[b]]
      /\ nHeight[pprev[b]] = nHeight[chainActive]
  <2>1. /\ pprev[b] \in mapBlockIndex /\ chainActive \in anc[pprev[b]]
        /\ nHeight[b] = nHeight[pprev[b]] + 1
    BY <1>3, <1>4, <1>6, <1>7 DEF EntryInv
  <2>2. nHeight[pprev[b]] \in Nat
    BY <2>1 DEF TypeOK
  <2> QED
    BY <1>1, <1>2, <2>1, <2>2
<1>9. EntryInv(pprev[b])
  BY <1>8 DEF TreeInv
<1>10. pprev[b] = chainActive
  BY <1>2, <1>8, <1>9 DEF EntryInv
<1> QED
  BY <1>3, <1>4, <1>5, <1>10 DEF EntryInv
-----------------------------------------------------------------------------
(* The initial state *)

\* The connected genesis block satisfies the inductive invariant.
LEMMA InitIInv == Init => IInv
<1> SUFFICES ASSUME Init PROVE IInv
  OBVIOUS
<1> USE BestChainAssumption
<1>1. TypeOK
  BY DEF Init, TypeOK, Null, Labels, AllVerdicts
<1>2. TreeInv
  BY DEF Init, TreeInv, EntryInv
<1>3. FailedOnlyIfInvalid /\ CandidatesExact /\ ActiveChainValid
  BY DEF Init, FailedOnlyIfInvalid, CandidatesExact, ActiveChainValid, failed,
         ValidChain
<1>4. CoinsMatchTip /\ SearchInv
  BY DEF Init, CoinsMatchTip, SearchInv
<1>5. BestValidChainActive
  BY DEF Init, BestValidChainActive, Worse
<1> QED
  BY <1>1, <1>2, <1>3, <1>4, <1>5 DEF IInv
-----------------------------------------------------------------------------
(* Every step preserves the invariant.  A step either adds an entry to the *)
(* tree or leaves the tree alone (TreeSame); sequence numbers also change  *)
(* when the index is loaded.                                               *)

TreeSame == /\ mapBlockIndex' = mapBlockIndex /\ pprev' = pprev
            /\ nHeight' = nHeight /\ nChainWork' = nChainWork
            /\ anc' = anc /\ verdict' = verdict

AddStep == \E b \in Block, p \in mapBlockIndex, w \in Works, v \in Verdicts :
             AddToBlockIndex(b, p, w, v)

\* Only AddToBlockIndex touches the tree.
LEMMA TreeSameOrAdd == [Next]_vars => TreeSame \/ AddStep
<1> SUFFICES ASSUME [Next]_vars PROVE TreeSame \/ AddStep
  OBVIOUS
<1>1. CASE ActivateStep
  BY <1>1 DEF ActivateStep, PopInvalidTip, PopDone, RejectCandidate,
       ChooseCandidate, DisconnectTip, DisconnectDone, ConnectTip, AssertFails,
       ConnectDone, ReadFault, ConnectValid, ConnectInvalid, ConnectCorrupt,
       ConnectSilent, treeVars, TreeSame
<1>2. CASE LoadBlockIndexDB
  BY <1>2 DEF LoadBlockIndexDB, TreeSame
<1>3. CASE UNCHANGED vars
  BY <1>3 DEF vars, treeVars, TreeSame
<1> QED
  BY <1>1, <1>2, <1>3 DEF Next, AddStep

\* Types are preserved.  DisconnectTip never goes below the genesis block,
\* because chainMostWork contains it.
LEMMA TypeStep ==
  ASSUME TypeOK, TreeInv, SearchInv, [Next]_vars
  PROVE  TypeOK'
<1> USE BestChainAssumption DEF TypeOK
<1>1. ASSUME NEW b \in Block, NEW p \in mapBlockIndex, NEW w \in Works,
             NEW v \in Verdicts, AddToBlockIndex(b, p, w, v)
      PROVE  TypeOK'
  <2>1. /\ pc' \in Labels /\ result' \in {"none", "true", "false", "ioerror"}
        /\ faults' \in Nat
    BY <1>1 DEF AddToBlockIndex, Activate, WriteFault, Labels
  <2>2. /\ mapBlockIndex' \subseteq Block /\ Genesis \in mapBlockIndex'
        /\ pprev' \in [Block -> mapBlockIndex' \cup {Null}]
        /\ nHeight' \in [Block -> Nat] /\ nChainWork' \in [Block -> Nat]
        /\ anc' \in [Block -> SUBSET Block]
        /\ verdict' \in [Block -> AllVerdicts]
        /\ nSequenceId' \in [Block -> Nat] /\ nBlockSequenceId' \in Nat
    BY <1>1 DEF AddToBlockIndex
  <2> QED
    BY <1>1, <2>1, <2>2 DEF AddToBlockIndex
<1>2. CASE PopInvalidTip
  <2>1. chainMostWork \in Block
    BY <1>2 DEF PopInvalidTip, failed
  <2> QED
    BY <1>2, <2>1 DEF PopInvalidTip, treeVars, runVars
<1>3. CASE PopDone
  BY <1>3 DEF PopDone, Goto, treeVars, flagVars, Labels
<1>4. CASE RejectCandidate
  <2>1. PICK c \in setBlockIndexValid : pindexBestInvalid' = BestInvalid(pindexBestInvalid, c)
    BY <1>4 DEF RejectCandidate
  <2>2. pindexBestInvalid' \in mapBlockIndex \cup {Null}
    BY <2>1 DEF BestInvalid
  <2>3. failedChild' \subseteq mapBlockIndex
    <3>1. PICK d \in setBlockIndexValid, t \in Block : failedChild' = failedChild \cup (anc[d] \ anc[t])
      BY <1>4 DEF RejectCandidate, InvalidAncestors, failed
    <3> QED
      BY <3>1 DEF TreeInv, EntryInv
  <2> QED
    BY <1>4, <2>2, <2>3 DEF RejectCandidate, treeVars, runVars
<1>5. CASE ChooseCandidate
  BY <1>5 DEF ChooseCandidate, Goto, treeVars, flagVars, Labels
<1>6. CASE DisconnectTip
  <2>1. pprev[chainActive] \in mapBlockIndex
    BY <1>6 DEF DisconnectTip, SearchInv, Contains, Chain, TreeInv, EntryInv
  <2>2. CASE ReadFault
    BY <2>2 DEF ReadFault, Return, treeVars, flagVars, Labels
  <2>3. CASE ~ReadFault
    <3>1. /\ coinsBest' = pprev[chainActive]
          /\ chainActive' \in {chainActive, pprev[chainActive]}
          /\ UNCHANGED <<treeVars, flagVars, chainMostWork>>
      BY <1>6, <2>3 DEF DisconnectTip
    <3>2. UNCHANGED runVars \/ WriteFault
      BY <1>6, <2>3 DEF DisconnectTip
    <3>3. /\ pc' \in Labels /\ result' \in {"none", "true", "false", "ioerror"}
          /\ faults' \in Nat
      BY <3>2 DEF runVars, WriteFault, Labels
    <3> QED
      BY <2>1, <3>1, <3>3 DEF treeVars, flagVars
  <2> QED
    BY <2>2, <2>3
<1>7. CASE DisconnectDone
  BY <1>7 DEF DisconnectDone, Goto, treeVars, flagVars, Labels
<1>8. ASSUME NEW b \in mapBlockIndex, IsNextToConnect(b),
             \/ ReadFault \/ ConnectValid(b) \/ ConnectInvalid(b)
             \/ ConnectCorrupt(b) \/ ConnectSilent(b)
      PROVE  TypeOK'
  <2>1. CASE ReadFault
    BY <2>1 DEF ReadFault, Return, treeVars, flagVars, Labels
  <2>2. CASE ConnectValid(b)
    BY <2>2 DEF ConnectValid, WriteFault, treeVars, flagVars, runVars, Labels
  <2>3. CASE ConnectInvalid(b)
    <3>1. chainMostWork \in mapBlockIndex
      BY <1>8 DEF IsNextToConnect, SearchInv
    <3> QED
      BY <2>3, <3>1 DEF ConnectInvalid, Goto, treeVars, BestInvalid, Labels
  <2>4. CASE ConnectCorrupt(b)
    BY <2>4 DEF ConnectCorrupt, Goto, treeVars, flagVars, Labels
  <2>5. CASE ConnectSilent(b)
    BY <2>5 DEF ConnectSilent, Return, treeVars, flagVars, Labels
  <2> QED
    BY <1>8, <2>1, <2>2, <2>3, <2>4, <2>5
<1>9. CASE AssertFails
  BY <1>9 DEF AssertFails, Goto, treeVars, flagVars, Labels
<1>10. CASE ConnectDone
  BY <1>10 DEF ConnectDone, Return, treeVars, flagVars, Labels
<1>11. CASE LoadBlockIndexDB
  BY <1>11 DEF LoadBlockIndexDB, Activate, Labels
<1>12. CASE UNCHANGED vars
  BY <1>12 DEF vars, treeVars, flagVars, runVars
<1> QED
  BY <1>1, <1>2, <1>3, <1>4, <1>5, <1>6, <1>7, <1>8, <1>9, <1>10, <1>11, <1>12
     DEF Next, ActivateStep, ConnectTip

\* The tree stays a tree: a new entry goes on top of a known one.
LEMMA TreeStep ==
  ASSUME TypeOK, TreeInv, [Next]_vars
  PROVE  TreeInv'
<1>1. CASE TreeSame
  BY <1>1 DEF TreeSame, TreeInv, EntryInv
<1>2. ASSUME NEW b \in Block, NEW p \in mapBlockIndex, NEW w \in Works,
             NEW v \in Verdicts, AddToBlockIndex(b, p, w, v)
      PROVE  TreeInv'
  <2>1. /\ b \notin mapBlockIndex /\ mapBlockIndex' = mapBlockIndex \cup {b}
        /\ \A x \in mapBlockIndex : /\ pprev'[x] = pprev[x] /\ anc'[x] = anc[x]
                                    /\ nHeight'[x] = nHeight[x]
                                    /\ verdict'[x] = verdict[x]
        /\ pprev'[b] = p /\ anc'[b] = anc[p] \cup {b}
        /\ nHeight'[b] = nHeight[p] + 1
    BY <1>2 DEF AddToBlockIndex, TypeOK
  <2>2. ASSUME NEW x \in mapBlockIndex
        PROVE  EntryInv(x)'
    BY <2>1 DEF TreeInv, EntryInv
  <2>3. EntryInv(b)'
    <3>1. EntryInv(p) /\ p # b
      BY <2>1 DEF TreeInv
    <3>2. nHeight[p] \in Nat /\ \A a \in anc[p] : nHeight[a] \in Nat
      BY <3>1 DEF TypeOK, EntryInv
    <3>3. \A a \in anc[p] : a \in mapBlockIndex /\ a # b
      BY <2>1, <3>1 DEF EntryInv
    <3>4. \A a \in anc[p] : nHeight'[a] < nHeight'[b]
      BY <2>1, <3>1, <3>2, <3>3 DEF EntryInv
    <3>5. \A a \in anc'[b] : anc'[a] \subseteq anc'[b]
      BY <2>1, <3>1, <3>3 DEF EntryInv
    <3>6. \A a, c \in anc'[b] : a \in anc'[c] \/ c \in anc'[a]
      BY <2>1, <3>1, <3>3 DEF EntryInv
    <3>7. b # Genesis
      BY <2>1 DEF TypeOK
    <3> QED
      BY <2>1, <3>1, <3>3, <3>4, <3>5, <3>6, <3>7 DEF EntryInv
  <2> QED
    BY <2>1, <2>2, <2>3 DEF TreeInv, TypeOK
<1> QED
  BY <1>1, <1>2, TreeSameOrAdd DEF AddStep

\* Adding an entry changes nothing about the entries already known.
LEMMA AddKeepsTree ==
  ASSUME TypeOK, TreeInv, AddStep
  PROVE  /\ mapBlockIndex \subseteq mapBlockIndex'
         /\ \A x \in mapBlockIndex :
              /\ anc'[x] = anc[x] /\ verdict'[x] = verdict[x]
              /\ (ValidChain(x)' <=> ValidChain(x))
         /\ UNCHANGED <<failedValid, failedChild, chainActive, chainMostWork,
                        coinsBest>>
<1>1. PICK b \in Block, p \in mapBlockIndex, w \in Works, v \in Verdicts :
        AddToBlockIndex(b, p, w, v)
  BY DEF AddStep
<1>2. \A x \in mapBlockIndex : anc'[x] = anc[x] /\ verdict'[x] = verdict[x]
  BY <1>1 DEF AddToBlockIndex, TypeOK
<1>3. \A x \in mapBlockIndex : anc[x] \subseteq mapBlockIndex
  BY DEF TreeInv, EntryInv
<1> QED
  BY <1>1, <1>2, <1>3 DEF AddToBlockIndex, ValidChain

\* In the walk of FindMostWorkChain, the entries above the failed entry t all
\* descend from t, and none of them is in the active chain.
LEMMA RejectedDescend ==
  ASSUME TypeOK, TreeInv, NEW c \in mapBlockIndex, NEW t \in InvalidAncestors(c),
         NEW d \in anc[c] \ anc[t]
  PROVE  /\ t \in mapBlockIndex /\ t \in failed /\ d \in mapBlockIndex
         /\ anc[t] \subseteq anc[d] /\ d \notin anc[chainActive]
<1>1. t \in anc[c] /\ t \in failed /\ t \notin anc[chainActive]
  BY NullNotBlock DEF InvalidAncestors, Chain, TypeOK
<1>2. t \in mapBlockIndex /\ d \in mapBlockIndex
  BY <1>1 DEF TreeInv, EntryInv
<1>3. t \in anc[d]
  BY <1>1 DEF TreeInv, EntryInv
<1>4. anc[t] \subseteq anc[d]
  BY <1>2, <1>3 DEF TreeInv, EntryInv
<1>5. d \notin anc[chainActive]
  BY <1>1, <1>3 DEF TreeInv, EntryInv, TypeOK
<1> QED
  BY <1>1, <1>2, <1>4, <1>5

\* What RejectCandidate does to the flags and to the candidate set.
LEMMA RejectEffect ==
  ASSUME RejectCandidate, TypeOK
  PROVE  \E c \in mapBlockIndex : \E t \in InvalidAncestors(c) :
           /\ failedChild' = failedChild \cup (anc[c] \ anc[t])
           /\ setBlockIndexValid' = setBlockIndexValid \ (anc[c] \ anc[t])
BY DEF RejectCandidate, TypeOK

\* Steps other than RejectCandidate, ConnectInvalid and LoadBlockIndexDB leave
\* the flags alone.
LEMMA FlagsSame ==
  ASSUME TypeOK, [Next]_vars, ~RejectCandidate, ~LoadBlockIndexDB,
         \A b \in mapBlockIndex : ~(IsNextToConnect(b) /\ ConnectInvalid(b))
  PROVE  failedValid' = failedValid /\ failedChild' = failedChild
<1>1. CASE AddStep
  BY <1>1 DEF AddStep, AddToBlockIndex
<1>2. CASE ActivateStep
  BY <1>2 DEF ActivateStep, PopInvalidTip, PopDone,
       ChooseCandidate, DisconnectTip, DisconnectDone, ConnectTip, AssertFails,
       ConnectDone, ReadFault, ConnectValid, ConnectCorrupt, ConnectSilent,
       flagVars
<1>3. CASE UNCHANGED vars
  BY <1>3 DEF vars, flagVars
<1> QED
  BY <1>1, <1>2, <1>3 DEF Next, AddStep

\* Flags are only ever put on invalid blocks and their descendants.
LEMMA FailedStep ==
  ASSUME TypeOK, TreeInv, FailedOnlyIfInvalid, [Next]_vars
  PROVE  FailedOnlyIfInvalid'
<1> USE DEF failed
<1>1. CASE AddStep
  <2>1. failed \subseteq mapBlockIndex
    BY DEF TypeOK
  <2>2. \A b \in failed : anc[b] \subseteq mapBlockIndex
    BY <2>1 DEF TreeInv, EntryInv
  <2> QED
    BY <1>1, <2>1, <2>2, AddKeepsTree DEF FailedOnlyIfInvalid
<1>2. CASE TreeSame /\ RejectCandidate
  <2>1. PICK c \in mapBlockIndex : \E t \in InvalidAncestors(c) :
          failedChild' = failedChild \cup (anc[c] \ anc[t])
    BY <1>2, RejectEffect
  <2>2. PICK t \in InvalidAncestors(c) :
          failedChild' = failedChild \cup (anc[c] \ anc[t])
    BY <2>1
  <2>3. failedValid' = failedValid
    BY <1>2 DEF RejectCandidate
  <2>4. ASSUME NEW d \in anc[c] \ anc[t]
        PROVE  \E a \in anc[d] : a \in failedValid /\ verdict[a] = "invalid"
    <3>1. t \in failed /\ anc[t] \subseteq anc[d]
      BY RejectedDescend
    <3> QED
      BY <3>1 DEF FailedOnlyIfInvalid
  <2> QED
    BY <1>2, <2>2, <2>3, <2>4 DEF FailedOnlyIfInvalid, TreeSame
<1>3. CASE TreeSame /\ \E b \in mapBlockIndex : IsNextToConnect(b) /\ ConnectInvalid(b)
  <2>1. PICK b \in mapBlockIndex : ConnectInvalid(b)
    BY <1>3
  <2>2. b \in anc[b]
    BY DEF TreeInv, EntryInv
  <2> QED
    BY <1>3, <2>1, <2>2 DEF ConnectInvalid, FailedOnlyIfInvalid, TreeSame
<1>4. CASE TreeSame /\ LoadBlockIndexDB
  BY <1>4 DEF LoadBlockIndexDB, FailedOnlyIfInvalid, TreeSame
<1>5. CASE TreeSame /\ failedValid' = failedValid /\ failedChild' = failedChild
  BY <1>5 DEF FailedOnlyIfInvalid, TreeSame
<1> QED
  BY <1>1, <1>2, <1>3, <1>4, <1>5, TreeSameOrAdd, FlagsSame

\* The candidate set stays exactly the set of unflagged entries.
LEMMA CandidatesStep ==
  ASSUME TypeOK, CandidatesExact, [Next]_vars
  PROVE  CandidatesExact'
<1> USE DEF failed, CandidatesExact
<1>1. CASE AddStep
  <2>1. PICK b \in Block : /\ b \notin mapBlockIndex
                           /\ mapBlockIndex' = mapBlockIndex \cup {b}
                           /\ setBlockIndexValid' = setBlockIndexValid \cup {b}
                           /\ UNCHANGED <<failedValid, failedChild>>
    BY <1>1 DEF AddStep, AddToBlockIndex
  <2>2. b \notin failedValid \cup failedChild
    BY <2>1 DEF TypeOK
  <2> QED
    BY <2>1, <2>2
<1>2. CASE RejectCandidate
  <2>1. mapBlockIndex' = mapBlockIndex /\ failedValid' = failedValid
    BY <1>2 DEF RejectCandidate, treeVars
  <2> QED
    BY <1>2, <2>1, RejectEffect
<1>3. CASE \E b \in mapBlockIndex : ConnectInvalid(b)
  BY <1>3 DEF ConnectInvalid, treeVars
<1>4. CASE LoadBlockIndexDB
  BY <1>4 DEF LoadBlockIndexDB
<1>5. CASE PopInvalidTip
  BY <1>5 DEF PopInvalidTip, treeVars
<1>6. CASE \/ PopDone \/ ChooseCandidate \/ DisconnectTip \/ DisconnectDone
           \/ AssertFails \/ ConnectDone
  BY <1>6 DEF PopDone, ChooseCandidate, DisconnectTip, DisconnectDone, ReadFault,
       AssertFails, ConnectDone, treeVars, flagVars
<1>7. CASE \E b \in mapBlockIndex : \/ ReadFault \/ ConnectValid(b)
                                    \/ ConnectCorrupt(b) \/ ConnectSilent(b)
  BY <1>7 DEF ReadFault, ConnectValid, ConnectCorrupt, ConnectSilent, treeVars,
       flagVars
<1>8. CASE UNCHANGED vars
  BY <1>8 DEF vars, treeVars, flagVars
<1> QED
  BY <1>1, <1>2, <1>3, <1>4, <1>5, <1>6, <1>7, <1>8
     DEF Next, AddStep, ActivateStep, ConnectTip

\* Where chainActive can move: up to the next block of chainMostWork once it is
\* connected, or down to the parent of a tip outside chainMostWork.
LEMMA ActiveMoves ==
  ASSUME TypeOK, CoinsMatchTip, [Next]_vars
  PROVE  \/ chainActive' = chainActive
         \/ DisconnectTip /\ chainActive' = pprev[chainActive]
         \/ \E b \in mapBlockIndex : /\ IsNextToConnect(b) /\ ConnectValid(b)
                                     /\ chainActive' = b
<1>1. CASE AddStep
  BY <1>1 DEF AddStep, AddToBlockIndex
<1>2. CASE ActivateStep
  BY <1>2 DEF ActivateStep, PopInvalidTip, PopDone, RejectCandidate,
       ChooseCandidate, DisconnectTip, DisconnectDone, ConnectTip, AssertFails,
       ConnectDone, ReadFault, ConnectValid, ConnectInvalid, ConnectCorrupt,
       ConnectSilent
<1>3. CASE LoadBlockIndexDB
  BY <1>3 DEF LoadBlockIndexDB, CoinsMatchTip
<1>4. CASE UNCHANGED vars
  BY <1>4 DEF vars
<1> QED
  BY <1>1, <1>2, <1>3, <1>4 DEF Next, AddStep

\* The active chain stays free of invalid and of flagged blocks.
LEMMA ActiveStep ==
  ASSUME TypeOK, TreeInv, SearchInv, FailedOnlyIfInvalid, ActiveChainValid,
         CoinsMatchTip, [Next]_vars
  PROVE  ActiveChainValid'
<1> USE DEF failed
<1>1. chainActive \in mapBlockIndex /\ anc[chainActive] \subseteq mapBlockIndex
  BY DEF TypeOK, TreeInv, EntryInv
<1>2. CASE AddStep
  BY <1>1, <1>2, AddKeepsTree DEF ActiveChainValid
<1>3. CASE TreeSame /\ RejectCandidate
  <2>1. PICK c \in mapBlockIndex : \E t \in InvalidAncestors(c) :
          failedChild' = failedChild \cup (anc[c] \ anc[t])
    BY <1>3, RejectEffect
  <2>2. PICK t \in InvalidAncestors(c) :
          failedChild' = failedChild \cup (anc[c] \ anc[t])
    BY <2>1
  <2>3. failedValid' = failedValid /\ chainActive' = chainActive
    BY <1>3 DEF RejectCandidate
  <2>4. (anc[c] \ anc[t]) \cap anc[chainActive] = {}
    BY RejectedDescend
  <2> QED
    BY <1>3, <2>2, <2>3, <2>4 DEF ActiveChainValid, ValidChain, TreeSame
<1>4. CASE TreeSame /\ \E b \in mapBlockIndex : IsNextToConnect(b) /\ ConnectInvalid(b)
  <2>1. PICK b \in mapBlockIndex : IsNextToConnect(b) /\ ConnectInvalid(b)
    BY <1>4
  <2>2. b \notin anc[chainActive]
    BY <2>1, NextToConnectIsChild
  <2> QED
    BY <1>4, <2>1, <2>2 DEF ConnectInvalid, ActiveChainValid, ValidChain, TreeSame
<1>5. CASE TreeSame /\ LoadBlockIndexDB
  BY <1>5 DEF LoadBlockIndexDB, CoinsMatchTip, ActiveChainValid, ValidChain,
       TreeSame
<1>6. CASE TreeSame /\ failedValid' = failedValid /\ failedChild' = failedChild
  <2>1. CASE chainActive' = chainActive
    BY <1>6, <2>1 DEF ActiveChainValid, ValidChain, TreeSame
  <2>2. CASE DisconnectTip /\ chainActive' = pprev[chainActive]
    <3>1. chainActive # Genesis
      BY <2>2 DEF DisconnectTip, SearchInv, Contains, Chain, TypeOK, TreeInv,
           EntryInv
    <3>2. anc[pprev[chainActive]] \subseteq anc[chainActive]
      BY <1>1, <3>1 DEF TreeInv, EntryInv
    <3> QED
      BY <1>6, <2>2, <3>2 DEF ActiveChainValid, ValidChain, TreeSame
  <2>3. ASSUME NEW b \in mapBlockIndex, IsNextToConnect(b), ConnectValid(b),
               chainActive' = b
        PROVE  ActiveChainValid'
    <3>1. anc[b] = anc[chainActive] \cup {b}
      BY <2>3, NextToConnectIsChild
    <3>2. verdict[b] = "ok"
      BY <2>3 DEF ConnectValid
    <3>3. ValidChain(b)
      BY <3>1, <3>2 DEF ActiveChainValid, ValidChain
    <3>4. b \notin failed
      BY <3>3 DEF FailedOnlyIfInvalid, ValidChain
    <3> QED
      BY <1>6, <2>3, <3>1, <3>3, <3>4 DEF ActiveChainValid, ValidChain, TreeSame
  <2> QED
    BY <2>1, <2>2, <2>3, ActiveMoves
<1> QED
  BY <1>2, <1>3, <1>4, <1>5, <1>6, TreeSameOrAdd, FlagsSame

\* The coins follow the tip as long as every write succeeds.
LEMMA CoinsStep ==
  ASSUME TypeOK, CoinsMatchTip, [Next]_vars
  PROVE  CoinsMatchTip'
<1> USE DEF CoinsMatchTip
<1>1. CASE AddStep
  <2>1. UNCHANGED <<chainActive, coinsBest>> /\ (Activate \/ WriteFault)
    BY <1>1 DEF AddStep, AddToBlockIndex
  <2> QED
    BY <2>1 DEF Activate, WriteFault, TypeOK
<1>2. CASE DisconnectTip
  <2>1. CASE ReadFault
    BY <2>1 DEF ReadFault, Return
  <2>2. CASE coinsBest' = pprev[chainActive] /\ chainActive' = pprev[chainActive]
    BY <2>2
  <2>3. CASE WriteFault
    BY <2>3 DEF WriteFault, TypeOK
  <2> QED
    BY <1>2, <2>1, <2>2, <2>3 DEF DisconnectTip
<1>3. ASSUME NEW b \in mapBlockIndex, ConnectValid(b)
      PROVE  CoinsMatchTip'
  <2>1. CASE coinsBest' = b /\ chainActive' = b
    BY <2>1
  <2>2. CASE WriteFault
    BY <2>2 DEF WriteFault, TypeOK
  <2> QED
    BY <1>3, <2>1, <2>2 DEF ConnectValid
<1>4. CASE \E b \in mapBlockIndex : \/ ReadFault \/ ConnectInvalid(b)
                                    \/ ConnectCorrupt(b) \/ ConnectSilent(b)
  BY <1>4 DEF ReadFault, ConnectInvalid, ConnectCorrupt, ConnectSilent, Goto, Return
<1>5. CASE \/ PopInvalidTip \/ PopDone \/ RejectCandidate \/ ChooseCandidate
           \/ DisconnectDone \/ AssertFails \/ ConnectDone
  BY <1>5 DEF PopInvalidTip, PopDone, RejectCandidate, ChooseCandidate,
       DisconnectDone, AssertFails, ConnectDone, Goto, Return, runVars
<1>6. CASE LoadBlockIndexDB
  BY <1>6 DEF LoadBlockIndexDB
<1>7. CASE UNCHANGED vars
  BY <1>7 DEF vars, runVars
<1> QED
  BY <1>1, <1>2, <1>3, <1>4, <1>5, <1>6, <1>7
     DEF Next, AddStep, ActivateStep, ConnectTip

\* A valid chain is a candidate: nothing on it is ever flagged.
LEMMA ValidIsCandidate ==
  ASSUME TypeOK, FailedOnlyIfInvalid, CandidatesExact,
         NEW b \in mapBlockIndex, ValidChain(b)
  PROVE  b \in setBlockIndexValid
BY DEF FailedOnlyIfInvalid, CandidatesExact, ValidChain

\* When FindMostWorkChain returns, no valid chain is better than chainMostWork.
LEMMA ChosenIsBest ==
  ASSUME TypeOK, FailedOnlyIfInvalid, CandidatesExact, ChooseCandidate
  PROVE  /\ chainMostWork' \in mapBlockIndex
         /\ \A b \in mapBlockIndex : ValidChain(b) => ~Worse(chainMostWork', b)
<1>1. PICK c \in setBlockIndexValid :
        /\ IsBest(c, setBlockIndexValid)
        /\ chainMostWork' = IF chainMostWork # Null /\ ~Worse(chainMostWork, c)
                              THEN chainMostWork ELSE c
  BY DEF ChooseCandidate
<1>2. chainMostWork' \in mapBlockIndex
  BY <1>1 DEF TypeOK
<1>3. ~Worse(chainMostWork', c)
  <2>1. ~Worse(c, c)
    BY <1>1, WorseAsymmetric DEF TypeOK
  <2> QED
    BY <1>1, <2>1
<1>4. ASSUME NEW b \in mapBlockIndex, ValidChain(b), Worse(chainMostWork', b)
      PROVE  FALSE
  <2>1. b = c \/ Worse(b, c)
    BY <1>1, <1>4, ValidIsCandidate DEF IsBest
  <2>2. /\ chainMostWork' \in Block /\ b \in Block /\ c \in Block
    BY <1>1, <1>2 DEF TypeOK
  <2>3. Worse(chainMostWork', c)
    BY <1>4, <2>1, <2>2, WorseTransitive
  <2> QED
    BY <1>3, <2>3
<1> QED
  BY <1>2, <1>4

\* What FindMostWorkChain establishes lasts until the activation is over.
LEMMA SearchStep ==
  ASSUME TypeOK, TreeInv, SearchInv, FailedOnlyIfInvalid, CandidatesExact,
         [Next]_vars
  PROVE  SearchInv'
<1>1. CASE AddStep
  <2>1. pc' \in {"pop", "idle"}
    BY <1>1 DEF AddStep, AddToBlockIndex, Activate, WriteFault
  <2> QED
    BY <2>1 DEF SearchInv
<1>2. CASE pc' \in {"idle", "pop", "pick", "aborted"}
  BY <1>2 DEF SearchInv
<1>3. CASE ChooseCandidate
  <2>1. /\ UNCHANGED treeVars /\ pc' = "disconnect"
    BY <1>3 DEF ChooseCandidate, Goto
  <2>2. \A b \in mapBlockIndex : ValidChain(b) => ~Worse(chainMostWork', b)
    BY <1>3, ChosenIsBest
  <2>3. chainMostWork' # Null
    BY <1>3, ChosenIsBest, NullNotBlock DEF TypeOK
  <2> QED
    BY <2>1, <2>2, <2>3 DEF SearchInv, treeVars, ValidChain, Worse
<1>4. CASE DisconnectTip /\ UNCHANGED runVars
  BY <1>4, BestChainAssumption DEF DisconnectTip, ReadFault, Return, SearchInv,
       treeVars, runVars, ValidChain, Worse
<1>5. CASE DisconnectDone
  BY <1>5 DEF DisconnectDone, Goto, SearchInv, treeVars, ValidChain, Worse,
       Contains, Chain
<1>6. ASSUME NEW b \in mapBlockIndex, IsNextToConnect(b), ConnectValid(b),
             UNCHANGED runVars
      PROVE  SearchInv'
  <2>1. UNCHANGED <<treeVars, chainMostWork>> /\ pc' = "connect"
    BY <1>6 DEF ConnectValid, IsNextToConnect, runVars
  <2>2. pc = "connect" /\ b \in Chain(chainMostWork)
    BY <1>6 DEF IsNextToConnect, Contains
  <2>3. chainActive' = b \/ faults' = faults + 1
    BY <1>6 DEF ConnectValid, WriteFault
  <2>4. chainActive' = b
    BY <1>6, <2>3 DEF runVars, TypeOK
  <2> QED
    BY <2>1, <2>2, <2>4 DEF SearchInv, treeVars, ValidChain, Worse, Contains, Chain
<1>7. CASE UNCHANGED vars
  BY <1>7 DEF vars, treeVars, runVars, SearchInv, ValidChain, Worse, Contains,
       Chain
<1>8. CASE PopInvalidTip \/ RejectCandidate
  BY <1>8 DEF PopInvalidTip, RejectCandidate, runVars, SearchInv
<1>9. CASE \/ PopDone \/ AssertFails \/ ConnectDone \/ LoadBlockIndexDB
           \/ ReadFault \/ WriteFault
           \/ \E b \in mapBlockIndex : \/ ConnectInvalid(b) \/ ConnectCorrupt(b)
                                       \/ ConnectSilent(b)
  BY <1>2, <1>9 DEF PopDone, AssertFails, ConnectDone, LoadBlockIndexDB, Activate,
       ReadFault, WriteFault, ConnectInvalid, ConnectCorrupt, ConnectSilent,
       Goto, Return
<1> QED
  BY <1>1, <1>3, <1>4, <1>5, <1>6, <1>7, <1>8, <1>9
     DEF Next, AddStep, ActivateStep, ConnectTip, ConnectValid, DisconnectTip

\* ActivateBestChain returns true only when the active tip is chainMostWork.
LEMMA BestStep ==
  ASSUME TypeOK, TreeInv, SearchInv, BestValidChainActive, CoinsMatchTip,
         [Next]_vars
  PROVE  BestValidChainActive'
<1>1. CASE ConnectDone
  <2>1. /\ UNCHANGED treeVars /\ chainActive' = chainActive
        /\ pc = "connect" /\ chainMostWork \in anc[chainActive]
    BY <1>1, NullNotBlock DEF ConnectDone, Contains, Chain, TypeOK
  <2>2. /\ chainMostWork \in mapBlockIndex /\ chainActive \in anc[chainMostWork]
        /\ \A b \in mapBlockIndex : ValidChain(b) => ~Worse(chainMostWork, b)
    BY <2>1 DEF SearchInv, Contains, Chain, TypeOK
  <2>3. /\ nHeight[chainMostWork] \in Nat /\ nHeight[chainActive] \in Nat
        /\ EntryInv(chainMostWork) /\ EntryInv(chainActive)
    BY <2>2 DEF TypeOK, TreeInv
  <2>4. chainActive = chainMostWork
    BY <2>1, <2>2, <2>3 DEF EntryInv
  <2> QED
    BY <2>1, <2>2, <2>4 DEF BestValidChainActive, treeVars, ValidChain, Worse
<1>2. CASE pc' # "idle" \/ result' # "true"
  BY <1>2 DEF BestValidChainActive
<1>3. CASE UNCHANGED vars
  BY <1>3 DEF vars, treeVars, runVars, BestValidChainActive, ValidChain, Worse
<1>4. CASE AddStep
  BY <1>2, <1>4 DEF AddStep, AddToBlockIndex, Activate, WriteFault
<1>5. CASE ActivateStep /\ ~ConnectDone
  <2>1. CASE PopInvalidTip \/ PopDone \/ RejectCandidate \/ ChooseCandidate
    BY <1>2, <2>1 DEF PopInvalidTip, PopDone, RejectCandidate, ChooseCandidate,
         Goto, runVars
  <2>2. CASE ReadFault \/ WriteFault
    BY <1>2, <2>2 DEF ReadFault, WriteFault, Return
  <2>3. CASE DisconnectTip \/ DisconnectDone \/ AssertFails
    BY <1>2, <2>2, <2>3 DEF DisconnectTip, DisconnectDone, AssertFails, Goto,
         runVars
  <2>4. ASSUME NEW b \in mapBlockIndex, IsNextToConnect(b),
               \/ ConnectValid(b) \/ ConnectInvalid(b)
               \/ ConnectCorrupt(b) \/ ConnectSilent(b)
        PROVE  BestValidChainActive'
    BY <1>2, <2>2, <2>4 DEF ConnectValid, ConnectInvalid, ConnectCorrupt,
         ConnectSilent, IsNextToConnect, Goto, Return, runVars
  <2> QED
    BY <1>5, <2>1, <2>2, <2>3, <2>4 DEF ActivateStep, ConnectTip
<1>6. CASE LoadBlockIndexDB
  BY <1>2, <1>6 DEF LoadBlockIndexDB, Activate
<1> QED
  BY <1>1, <1>3, <1>4, <1>5, <1>6 DEF Next, AddStep
-----------------------------------------------------------------------------
(* The theorems *)

\* IInv is an invariant of best-chain selection.
THEOREM Invariant == Spec => []IInv
<1>1. Init => IInv
  BY InitIInv
<1>2. IInv /\ [Next]_vars => IInv'
  BY TypeStep, TreeStep, FailedStep, CandidatesStep, ActiveStep, CoinsStep,
     SearchStep, BestStep DEF IInv
<1> QED
  BY <1>1, <1>2, PTL DEF Spec

\* Type correctness of the block index and of the chains.
THEOREM TypeCorrect == Spec => []TypeOK
<1>1. IInv => TypeOK
  BY DEF IInv
<1> QED
  BY <1>1, Invariant, PTL

\* The active chain never holds an invalid or flagged block, whatever blocks
\* arrive, in whatever order, and wherever an I/O error interrupts a
\* reorganisation.
THEOREM ActiveChainIsValid == Spec => []ActiveChainValid
<1>1. IInv => ActiveChainValid
  BY DEF IInv
<1> QED
  BY <1>1, Invariant, PTL

\* BLOCK_FAILED_VALID and BLOCK_FAILED_CHILD are only ever set on invalid blocks
\* and their descendants: neither a corrupt copy, an unreadable file nor a
\* silent refusal of ConnectBlock flags a block.
THEOREM FlagsHitOnlyInvalid == Spec => []FailedOnlyIfInvalid
<1>1. IInv => FailedOnlyIfInvalid
  BY DEF IInv
<1> QED
  BY <1>1, Invariant, PTL

\* setBlockIndexValid holds exactly the unflagged blocks.
THEOREM CandidatesAreExact == Spec => []CandidatesExact
<1>1. IInv => CandidatesExact
  BY DEF IInv
<1> QED
  BY <1>1, Invariant, PTL

\* Each activation that returns true has made the best valid chain active.
THEOREM BestValidChainIsActive == Spec => []BestValidChainActive
<1>1. IInv => BestValidChainActive
  BY DEF IInv
<1> QED
  BY <1>1, Invariant, PTL

\* Without failed writes pcoinsTip always belongs to the active tip.
THEOREM CoinsFollowTip == Spec => []CoinsMatchTip
<1>1. IInv => CoinsMatchTip
  BY DEF IInv
<1> QED
  BY <1>1, Invariant, PTL

\* A tip is disconnected only in favour of a better chain.
THEOREM DisconnectImproves == Spec => DisconnectOnlyForBetter
<1>1. IInv /\ [Next]_vars
        => [ pc = "disconnect" /\ chainActive' # chainActive
               => Worse(chainActive, chainMostWork) ]_vars
  <2> SUFFICES ASSUME IInv, [Next]_vars, pc = "disconnect",
                      chainActive' # chainActive
               PROVE  Worse(chainActive, chainMostWork)
    BY DEF IInv
  <2>1. DisconnectTip
    BY ActiveMoves DEF IInv, IsNextToConnect
  <2>2. /\ chainMostWork \in mapBlockIndex /\ chainActive \in mapBlockIndex
        /\ chainMostWork \in anc[chainMostWork]
        /\ ~Worse(chainMostWork, chainActive)
    BY DEF IInv, SearchInv, TypeOK, TreeInv, EntryInv, ActiveChainValid
  <2>3. chainActive # chainMostWork
    BY <2>1, <2>2, NullNotBlock DEF DisconnectTip, Contains, Chain, IInv, TypeOK
  <2> QED
    BY <2>2, <2>3, WorseTotal DEF IInv, TypeOK
<1> QED
  BY <1>1, Invariant, PTL DEF Spec, DisconnectOnlyForBetter
=============================================================================
