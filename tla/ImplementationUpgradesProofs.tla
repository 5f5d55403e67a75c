-------------------- MODULE ImplementationUpgradesProofs --------------------
(***************************************************************************)
(* What ImplementationUpgrades checks on an instance, for all contracts,   *)
(* names, signers and numbers of deployments.                              *)
(***************************************************************************)
EXTENDS ImplementationUpgrades, TLAPS

updatingPCs == {"updating", "upgraded", "recorded", "copied"}

\* Wherever logic is written down, it is next to the name it was built for.
Fits ==
  /\ \A c \in Contracts : impl[c].contract = c /\ current[c].contract = c
  /\ tmp # NoFile => \A c \in Contracts : tmp[c].contract = c
  /\ \A c \in Names : queued[c] # NoLogic => queued[c].contract = c

\* A running update has its file.
Verified == pc \in updatingPCs => tmp # NoFile

\* What is left to do is queued, and so is the update that is being recorded.
Pending ==
  /\ pc \in {"updating", "upgraded", "recorded"} => \A c \in todo : queued[c] # NoLogic
  /\ pc \in {"upgraded", "recorded"} => at \in todo \cap Contracts

\* The file tells the implementations, but for the one just upgraded.
FileMatches ==
  /\ pc \in {"updating", "recorded", "copied"} => tmp = impl
  /\ pc = "upgraded" =>
       impl[at] = queued[at] /\ \A c \in Contracts \ {at} : tmp[c] = impl[c]
  /\ pc = "copied" => current = impl

\* The records between updates that were not interrupted.
Recorded ==
  pc \notin updatingPCs /\ ~ interrupted => current = impl /\ tmp \in {NoFile, current}

IInv == TypeOK /\ Fits /\ Verified /\ Pending /\ FileMatches /\ Recorded /\ NothingForgotten

-----------------------------------------------------------------------------
\* Initially nothing is queued and the records are those of the chain.
LEMMA InitIInv == Init => IInv
<1> SUFFICES ASSUME Init PROVE IInv
  OBVIOUS
<1> USE UpgradesAssumption
<1>1. TypeOK
  BY DEF Init, TypeOK, Logic, Admins, expectedAdmin, proxyType, isBeaconOwnedByEOA,
         isBeaconOwnedByRollup
<1>2. Fits /\ Verified /\ Pending /\ FileMatches /\ Recorded
  BY DEF Init, Fits, Verified, Pending, FileMatches, Recorded, updatingPCs
<1>3. NothingForgotten
  BY DEF Init, NothingForgotten, deploymentData
<1> QED
  BY <1>1, <1>2, <1>3 DEF IInv

\* Every step keeps the invariant.  What a step of an update does is first put
\* in terms of the chain: the file is the chain but for one contract.
LEMMA NextIInv == IInv /\ [Next]_vars => IInv'
<1> SUFFICES ASSUME IInv, [Next]_vars PROVE IInv'
  OBVIOUS
<1> USE UpgradesAssumption DEF IInv
<1>1. ASSUME NEW names \in SUBSET Names, startDeploying(names) PROVE IInv'
  BY <1>1 DEF startDeploying, TypeOK, Fits, Verified, updatingPCs, Pending, FileMatches,
     Recorded,
     NothingForgotten, deploymentData, chain, files, task, history
<1>2. ASSUME NEW c \in Names, skipQueued(c) PROVE IInv'
  BY <1>2 DEF skipQueued, TypeOK, Fits, Verified, updatingPCs, Pending, FileMatches,
     Recorded,
     NothingForgotten, deploymentData, chain, files, task, history
<1>3. ASSUME NEW c \in Names, deployLogic(c)
      PROVE  IInv'
  <2>1. [contract |-> c, number |-> built + 1] \in Logic
    BY <1>3 DEF TypeOK, Logic
  <2>2. TypeOK'
    BY <1>3, <2>1 DEF deployLogic, TypeOK, chain, files, task, history
  <2>3. Fits'
    BY <1>3, <2>1 DEF deployLogic, Fits, TypeOK, chain, files, task, history
  <2>4. Verified'
    BY <1>3, <2>1 DEF deployLogic, Verified, updatingPCs, TypeOK, chain, files, task,
       history
  <2>5. Pending'
    BY <1>3, <2>1 DEF deployLogic, Pending, TypeOK, chain, files, task, history
  <2>6. FileMatches'
    BY <1>3, <2>1 DEF deployLogic, FileMatches, TypeOK, chain, files, task, history
  <2>7. Recorded'
    BY <1>3, <2>1 DEF deployLogic, Recorded, updatingPCs, TypeOK, chain, files, task,
       history
  <2>8. NothingForgotten'
    BY <1>3, <2>1 DEF deployLogic, NothingForgotten, deploymentData, TypeOK, chain, files,
       task, history
  <2> QED
    BY <2>2, <2>3, <2>4, <2>5, <2>6, <2>7, <2>8
<1>4. ASSUME endDeploying PROVE IInv'
  BY <1>4 DEF endDeploying, TypeOK, Fits, Verified, updatingPCs, Pending, FileMatches,
     Recorded,
     NothingForgotten, deploymentData, chain, files, task, history
<1>5. ASSUME NEW signer \in Signers, NEW answer \in Answers, startUpdating(signer, answer)
      PROVE  IInv'
  <2>1. tmp = NoFile
    BY <1>5 DEF startUpdating, resumes, Answers
  <2>2. current = impl
    BY <1>5, <2>1 DEF startUpdating, verifyCurrentImplementations, deploymentData, TypeOK
  <2>3. tmp' = impl
    BY <1>5, <2>1, <2>2 DEF startUpdating, deploymentData, TypeOK
  <2>4. TypeOK'
    BY <1>5, <2>1, <2>2, <2>3 DEF startUpdating, TypeOK, chain, files, task,
       history
  <2>5. Fits'
    BY <1>5, <2>1, <2>2, <2>3 DEF startUpdating, Fits, TypeOK, chain, files, task,
       history
  <2>6. Verified'
    BY <1>5, <2>1, <2>2, <2>3 DEF startUpdating, Verified, updatingPCs, TypeOK,
       chain, files, task, history
  <2>7. Pending'
    BY <1>5, <2>1, <2>2, <2>3 DEF startUpdating, Pending, TypeOK, chain, files,
       task, history
  <2>8. FileMatches'
    BY <1>5, <2>1, <2>2, <2>3 DEF startUpdating, FileMatches, TypeOK, chain, files,
       task, history
  <2>9. Recorded'
    BY <1>5, <2>1, <2>2, <2>3 DEF startUpdating, Recorded, updatingPCs, TypeOK,
       chain, files, task, history
  <2>10. NothingForgotten'
    BY <1>5, <2>1, <2>2, <2>3 DEF startUpdating, NothingForgotten, deploymentData,
       TypeOK, chain, files, task, history
  <2> QED
    BY <2>4, <2>5, <2>6, <2>7, <2>8, <2>9, <2>10
<1>6. ASSUME NEW c \in Names, skipUnrecognized(c) PROVE IInv'
  BY <1>6 DEF skipUnrecognized, TypeOK, Fits, Verified, updatingPCs, Pending, FileMatches,
     Recorded,
     NothingForgotten, deploymentData, chain, files, task, history
<1>7. ASSUME NEW c \in Names, upgrade(c)
      PROVE  IInv'
  <2>1. tmp = impl /\ tmp # NoFile /\ c \in todo \cap Contracts
    BY <1>7 DEF upgrade, FileMatches, Verified, updatingPCs
  <2>2. queued[c] # NoLogic /\ queued[c] \in Logic
    BY <1>7, <2>1 DEF upgrade, Pending, TypeOK
  <2>3. impl' = [impl EXCEPT ![c] = queued[c]]
    BY <1>7, <2>1, <2>2 DEF upgrade, upgraded, TypeOK
  <2>4. TypeOK'
    BY <1>7, <2>1, <2>2, <2>3 DEF upgrade, TypeOK, chain, files, task, history
  <2>5. Fits'
    BY <1>7, <2>1, <2>2, <2>3 DEF upgrade, Fits, TypeOK, chain, files, task, history
  <2>6. Verified'
    BY <1>7, <2>1, <2>2, <2>3 DEF upgrade, Verified, updatingPCs, TypeOK, chain, files,
       task, history
  <2>7. Pending'
    BY <1>7, <2>1, <2>2, <2>3 DEF upgrade, Pending, TypeOK, chain, files, task, history
  <2>8. FileMatches'
    BY <1>7, <2>1, <2>2, <2>3 DEF upgrade, FileMatches, TypeOK, chain, files, task, history
  <2>9. Recorded'
    BY <1>7, <2>1, <2>2, <2>3 DEF upgrade, Recorded, updatingPCs, TypeOK, chain, files,
       task, history
  <2>10. NothingForgotten'
    BY <1>7, <2>1, <2>2, <2>3 DEF upgrade, NothingForgotten, deploymentData, TypeOK,
       chain, files, task, history
  <2> QED
    BY <2>4, <2>5, <2>6, <2>7, <2>8, <2>9, <2>10
<1>8. ASSUME recordUpgrade
      PROVE  IInv'
  <2>1. at \in todo \cap Contracts /\ queued[at] # NoLogic /\ queued[at] \in Logic /\ tmp # NoFile
    BY <1>8 DEF recordUpgrade, Pending, Verified, updatingPCs, TypeOK
  <2>2. tmp' = impl
    BY <1>8, <2>1 DEF recordUpgrade, FileMatches, TypeOK
  <2>3. TypeOK'
    BY <1>8, <2>1, <2>2 DEF recordUpgrade, TypeOK, chain, files, task, history
  <2>4. Fits'
    BY <1>8, <2>1, <2>2 DEF recordUpgrade, Fits, TypeOK, chain, files, task, history
  <2>5. Verified'
    BY <1>8, <2>1, <2>2 DEF recordUpgrade, Verified, updatingPCs, TypeOK, chain, files,
       task, history
  <2>6. Pending'
    BY <1>8, <2>1, <2>2 DEF recordUpgrade, Pending, TypeOK, chain, files, task, history
  <2>7. FileMatches'
    BY <1>8, <2>1, <2>2 DEF recordUpgrade, FileMatches, TypeOK, chain, files, task, history
  <2>8. Recorded'
    BY <1>8, <2>1, <2>2 DEF recordUpgrade, Recorded, updatingPCs, TypeOK, chain, files,
       task, history
  <2>9. NothingForgotten'
    BY <1>8, <2>1, <2>2 DEF recordUpgrade, NothingForgotten, deploymentData, TypeOK,
       chain, files, task, history
  <2> QED
    BY <2>3, <2>4, <2>5, <2>6, <2>7, <2>8, <2>9
<1>9. ASSUME dequeue
      PROVE  IInv'
  <2>1. tmp = impl /\ tmp # NoFile
    BY <1>9 DEF dequeue, FileMatches, Verified, updatingPCs
  <2>2. TypeOK'
    BY <1>9, <2>1 DEF dequeue, TypeOK, chain, files, task, history
  <2>3. Fits'
    BY <1>9, <2>1 DEF dequeue, Fits, TypeOK, chain, files, task, history
  <2>4. Verified'
    BY <1>9, <2>1 DEF dequeue, Verified, updatingPCs, TypeOK, chain, files, task, history
  <2>5. Pending'
    BY <1>9, <2>1 DEF dequeue, Pending, TypeOK, chain, files, task, history
  <2>6. FileMatches'
    BY <1>9, <2>1 DEF dequeue, FileMatches, TypeOK, chain, files, task, history
  <2>7. Recorded'
    BY <1>9, <2>1 DEF dequeue, Recorded, updatingPCs, TypeOK, chain, files, task, history
  <2>8. NothingForgotten'
    BY <1>9, <2>1 DEF dequeue, NothingForgotten, deploymentData, TypeOK, chain, files,
       task, history
  <2> QED
    BY <2>2, <2>3, <2>4, <2>5, <2>6, <2>7, <2>8
<1>10. ASSUME copyRecords
      PROVE  IInv'
  <2>1. tmp = impl /\ tmp # NoFile
    BY <1>10 DEF copyRecords, FileMatches, Verified, updatingPCs
  <2>2. current' = impl
    BY <1>10, <2>1 DEF copyRecords, finalRecords
  <2>3. TypeOK'
    BY <1>10, <2>1, <2>2 DEF copyRecords, TypeOK, chain, files, task, history
  <2>4. Fits'
    BY <1>10, <2>1, <2>2 DEF copyRecords, Fits, TypeOK, chain, files, task, history
  <2>5. Verified'
    BY <1>10, <2>1, <2>2 DEF copyRecords, Verified, updatingPCs, TypeOK, chain, files,
       task, history
  <2>6. Pending'
    BY <1>10, <2>1, <2>2 DEF copyRecords, Pending, TypeOK, chain, files, task, history
  <2>7. FileMatches'
    BY <1>10, <2>1, <2>2 DEF copyRecords, FileMatches, TypeOK, chain, files, task, history
  <2>8. Recorded'
    BY <1>10, <2>1, <2>2 DEF copyRecords, Recorded, updatingPCs, TypeOK, chain, files,
       task, history
  <2>9. NothingForgotten'
    BY <1>10, <2>1, <2>2 DEF copyRecords, NothingForgotten, deploymentData, TypeOK, chain,
       files, task, history
  <2> QED
    BY <2>3, <2>4, <2>5, <2>6, <2>7, <2>8, <2>9
<1>11. ASSUME unlinkTmp
      PROVE  IInv'
  <2>1. current = impl
    BY <1>11 DEF unlinkTmp, FileMatches
  <2>2. TypeOK'
    BY <1>11, <2>1 DEF unlinkTmp, TypeOK, chain, files, task, history
  <2>3. Fits'
    BY <1>11, <2>1 DEF unlinkTmp, Fits, TypeOK, chain, files, task, history
  <2>4. Verified'
    BY <1>11, <2>1 DEF unlinkTmp, Verified, updatingPCs, TypeOK, chain, files, task, history
  <2>5. Pending'
    BY <1>11, <2>1 DEF unlinkTmp, Pending, TypeOK, chain, files, task, history
  <2>6. FileMatches'
    BY <1>11, <2>1 DEF unlinkTmp, FileMatches, TypeOK, chain, files, task, history
  <2>7. Recorded'
    BY <1>11, <2>1 DEF unlinkTmp, Recorded, updatingPCs, TypeOK, chain, files, task, history
  <2>8. NothingForgotten'
    BY <1>11, <2>1 DEF unlinkTmp, NothingForgotten, deploymentData, TypeOK, chain, files,
       task, history
  <2> QED
    BY <2>2, <2>3, <2>4, <2>5, <2>6, <2>7, <2>8
<1>12. ASSUME die PROVE IInv'
  BY <1>12 DEF die, TypeOK, Fits, Verified, updatingPCs, Pending, FileMatches, Recorded,
     NothingForgotten, deploymentData, chain, files, task, history
<1>13. ASSUME NEW c \in Contracts, NEW signer \in Signers, transferAdmin(c, signer)
      PROVE  IInv'
  <2>1. admin' \in [Contracts -> Admins]
    BY <1>13 DEF transferAdmin, TypeOK, Admins
  <2>2. TypeOK'
    BY <1>13, <2>1 DEF transferAdmin, TypeOK, chain, files, task, history
  <2>3. Fits'
    BY <1>13, <2>1 DEF transferAdmin, Fits, TypeOK, chain, files, task, history
  <2>4. Verified'
    BY <1>13, <2>1 DEF transferAdmin, Verified, updatingPCs, TypeOK, chain, files, task,
       history
  <2>5. Pending'
    BY <1>13, <2>1 DEF transferAdmin, Pending, TypeOK, chain, files, task, history
  <2>6. FileMatches'
    BY <1>13, <2>1 DEF transferAdmin, FileMatches, TypeOK, chain, files, task, history
  <2>7. Recorded'
    BY <1>13, <2>1 DEF transferAdmin, Recorded, updatingPCs, TypeOK, chain, files, task,
       history
  <2>8. NothingForgotten'
    BY <1>13, <2>1 DEF transferAdmin, NothingForgotten, deploymentData, TypeOK, chain,
       files, task, history
  <2> QED
    BY <2>2, <2>3, <2>4, <2>5, <2>6, <2>7, <2>8
<1>14. ASSUME removeTmp PROVE IInv'
  BY <1>14 DEF removeTmp, TypeOK, Fits, Verified, updatingPCs, Pending, FileMatches,
     Recorded,
     NothingForgotten, deploymentData, chain, files, task, history
<1>15. ASSUME mendRecords PROVE IInv'
  BY <1>15 DEF mendRecords, TypeOK, Fits, Verified, updatingPCs, Pending, FileMatches,
     Recorded,
     NothingForgotten, deploymentData, chain, files, task, history
<1>16. ASSUME UNCHANGED vars PROVE IInv'
  BY <1>16 DEF vars, TypeOK, Fits, Verified, updatingPCs, Pending, FileMatches, Recorded,
     NothingForgotten, deploymentData, chain, files, task, history
<1>17. ASSUME deployLogicAll PROVE IInv'
  BY <1>1, <1>17 DEF deployLogicAll
<1>18. ASSUME NEW c \in Names, startDeploying({c}) PROVE IInv'
  BY <1>1, <1>18
<1> QED
  BY <1>2, <1>3, <1>4, <1>5, <1>6, <1>7, <1>8, <1>9, <1>10, <1>11, <1>12, <1>13, <1>14,
     <1>15, <1>16, <1>17, <1>18 DEF Next, updateStep

\* Only the transaction of an update touches implementations, and it finds the
\* other facet where the file has it.
LEMMA UpgradeStep ==
  ASSUME IInv, [Next]_vars, impl' # impl
  PROVE  \A c \in Contracts : impl'[c] # impl[c] =>
           /\ impl' = [impl EXCEPT ![c] = impl'[c]]
           /\ isFacet(c) \/ admin[c] = expectedAdmin(c)
<1>1. PICK c \in Names : upgrade(c)
  BY DEF Next, updateStep, vars, chain, startDeploying, deployLogicAll, skipQueued,
     deployLogic, endDeploying,
         startUpdating, skipUnrecognized, recordUpgrade, dequeue, copyRecords, unlinkTmp, die,
         transferAdmin, removeTmp, mendRecords
<1>2. pc = "updating" /\ tmp = impl /\ impl \in [Contracts -> Logic]
  BY <1>1 DEF upgrade, IInv, FileMatches, TypeOK
<1>3. c \in Contracts /\ impl' = [impl EXCEPT ![c] = queued[c]]
  BY <1>1, <1>2 DEF upgrade, upgraded
<1>4. isFacet(c) \/ admin[c] = expectedAdmin(c)
  BY <1>1 DEF upgrade
<1> QED
  BY <1>2, <1>3, <1>4

-----------------------------------------------------------------------------
\* The invariant holds in every reachable state.
THEOREM Invariance == Spec => []IInv
  BY InitIInv, NextIInv, PTL DEF Spec

\* Every state is well typed: in particular the three files stay complete, each
\* contract with an implementation, through every interruption.
THEOREM TypeCorrect == Spec => []TypeOK
<1>1. IInv => TypeOK
  BY DEF IInv
<1> QED
  BY <1>1, Invariance, PTL

\* Contracts run the logic that was built for them, for any set of contracts
\* and any number of tasks of updateImplementations and deployLogic.
THEOREM Fitting == Spec => []ImplementationsFit
<1>1. IInv => ImplementationsFit
  BY DEF IInv, Fits, ImplementationsFit
<1> QED
  BY <1>1, Invariance, PTL

\* Wherever updateImplementations dies, implementations are on record or queued.
THEOREM Bookkeeping == Spec => []NothingForgotten
<1>1. IInv => NothingForgotten
  BY DEF IInv
<1> QED
  BY <1>1, Invariance, PTL

\* Updates that are not interrupted leave the records of the chain behind.
THEOREM Records == Spec => []RecordsMatchChain
<1>1. IInv => RecordsMatchChain
  BY DEF IInv, Recorded, RecordsMatchChain, updatingPCs
<1> QED
  BY <1>1, Invariance, PTL

\* Every transaction of updateImplementations changes one contract, and one that
\* is in the expected hands when it does, wherever admins are moved meanwhile.
THEOREM Upgrading == Spec => OneVerifiedUpgrade
<1>1. IInv /\ [Next]_vars =>
        [\A c \in Contracts : impl'[c] # impl[c] =>
           /\ impl' = [impl EXCEPT ![c] = impl'[c]]
           /\ isFacet(c) \/ admin[c] = expectedAdmin(c)]_vars
  BY UpgradeStep
<1> QED
  BY <1>1, Invariance, PTL DEF Spec, OneVerifiedUpgrade
=============================================================================
