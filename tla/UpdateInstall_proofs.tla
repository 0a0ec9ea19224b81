-------------------------- MODULE UpdateInstall_proofs --------------------------
(***************************************************************************)
(* Theorems about UpdateInstall, for any set of versions and any number of *)
(* calls and crashes.                                                      *)
(***************************************************************************)
EXTENDS UpdateInstall, TLAPS

\* What an interrupted removal or copy leaves is a directory, or none.
LEMMA Remains ==
    ASSUME TypeOK, NEW t \in MaybeTrees
    PROVE  /\ None \in MaybeTrees
           /\ HalfRemoved(t) \subseteq MaybeTrees
           /\ HalfCopied(t) \subseteq MaybeTrees
<1>1. Torn(t) \in MaybeTrees
  BY DEF MaybeTrees, Trees, Torn
<1>2. t # None => [Torn(t) EXCEPT !.at = calls] \in MaybeTrees
  BY DEF MaybeTrees, Trees, Torn, TypeOK
<1> QED BY <1>1, <1>2 DEF MaybeTrees, HalfRemoved, HalfCopied

\* What is left of a signed release is signed.
LEMMA RemainsSigned ==
    ASSUME NEW t \in MaybeTrees, t # None => t.build.signed,
           NEW r \in HalfRemoved(t) \cup HalfCopied(t), r # None
    PROVE  r.build.signed
<1>1. t # None /\ t \in Trees
  BY DEF HalfRemoved, HalfCopied, Torn, MaybeTrees
<1>2. Torn(t).build = t.build
  BY <1>1 DEF Torn, Trees
<1>3. [Torn(t) EXCEPT !.at = calls].build = t.build
  BY <1>1 DEF Torn, Trees
<1> QED BY <1>1, <1>2, <1>3 DEF HalfRemoved, HalfCopied

\* Every reachable state is well-typed.
THEOREM UpdateTypeCorrect == Spec => []TypeOK
<1>1. Init => TypeOK
  BY UpdateAssumption DEF Init, TypeOK, MaybeTrees, MaybeBuilds, Trees, Builds, Original, ApplySteps
<1>2. TypeOK /\ [Next]_vars => TypeOK'
  <2> SUFFICES ASSUME TypeOK, [Next]_vars PROVE TypeOK'
    OBVIOUS
  <2> USE UpdateAssumption, Remains DEF TypeOK, ApplySteps, trees, input, count, call, Then, Answers, Dies, Caught, Escapes
  <2>1. CASE Download BY <2>1 DEF Download, MaybeBuilds, Builds
  <2>2. CASE Confirm BY <2>2 DEF Confirm
  <2>3. CASE TokenExpires BY <2>3 DEF TokenExpires
  <2>4. CASE ApplyStarts BY <2>4 DEF ApplyStarts, MaybeBuilds, Verified
  <2>5. CASE Clears BY <2>5 DEF Clears
  <2>6. CASE BacksUp BY <2>6 DEF BacksUp
  <2>7. CASE Stages
    <3> DEFINE fresh == [build |-> target, whole |-> TRUE, at |-> calls]
    <3>1. target \in Builds /\ fresh \in MaybeTrees
      BY <2>7 DEF Stages, MaybeTrees, Trees
    <3>2. staging' \in HalfCopied(fresh) \cup {fresh}
      BY <2>7 DEF Stages
    <3> HIDE DEF fresh
    <3>3. staging' \in MaybeTrees
      BY <3>1, <3>2
    <3> QED BY <2>7, <3>3 DEF Stages
  <2>8. CASE SwapsOut BY <2>8 DEF SwapsOut
  <2>9. CASE MovesIn BY <2>9 DEF MovesIn
  <2>10. CASE Tidies BY <2>10 DEF Tidies
  <2>11. CASE Undoes BY <2>11 DEF Undoes
  <2>12. CASE PutsBack BY <2>12 DEF PutsBack
  <2>13. CASE Restores
    <3>1. target \in Builds /\ target.v \in Versions
      BY <2>13 DEF Restores, Builds
    <3>2. backup[target.v] \in MaybeTrees
      BY <3>1
    <3>3. install' = install \/ install' = backup[target.v] \/ install' \in HalfCopied(backup[target.v])
      BY <2>13 DEF Restores
    <3>4. install' \in MaybeTrees
      BY <3>2, <3>3
    <3> QED BY <2>13, <3>4 DEF Restores
  <2>14. CASE RollbackStarts BY <2>14 DEF RollbackStarts, Latest
  <2>15. CASE RollsBackOut BY <2>15 DEF RollsBackOut
  <2>16. CASE CopiesBack BY <2>16 DEF CopiesBack
  <2>17. CASE Restart BY <2>17 DEF Restart
  <2>18. CASE UNCHANGED vars BY <2>18 DEF vars
  <2> QED BY <2>1, <2>2, <2>3, <2>4, <2>5, <2>6, <2>7, <2>8, <2>9,
             <2>10, <2>11, <2>12, <2>13, <2>14, <2>15, <2>16, <2>17, <2>18 DEF Next, ApplyStep, RollbackStep
<1> QED BY <1>1, <1>2, PTL DEF Spec

-----------------------------------------------------------------------------
\* Where the release that a call started from is kept while the call is at work.
SourceInv ==
    /\ pc \in {"clear", "backup", "stage", "swap"} => install = source
    /\ pc \in {"stage", "swap", "move", "tidy", "undo", "putBack", "restore"} =>
          backup[target.v] = source
    /\ pc \in {"rollback", "copyBack"} => \E v \in Versions : backup[v] = source
    /\ pc \in {"idle", "down"} => SourceSurvives

\* SourceInv is inductive.
LEMMA SourceKept == Spec => []SourceInv
<1>1. Init => SourceInv
  BY DEF Init, SourceInv, SourceSurvives
<1>2. TypeOK /\ SourceInv /\ [Next]_vars => SourceInv'
  <2> SUFFICES ASSUME TypeOK, SourceInv, [Next]_vars PROVE SourceInv'
    OBVIOUS
  <2> USE UpdateAssumption DEF TypeOK, ApplySteps, SourceInv, SourceSurvives, Places, MaybeBuilds, Builds, trees, input, count, call, Then, Answers, Dies, Caught, Escapes
  <2>1. CASE Download BY <2>1 DEF Download
  <2>2. CASE Confirm BY <2>2 DEF Confirm
  <2>3. CASE TokenExpires BY <2>3 DEF TokenExpires
  <2>4. CASE ApplyStarts BY <2>4 DEF ApplyStarts
  <2>5. CASE Clears BY <2>5 DEF Clears
  <2>6. CASE BacksUp BY <2>6 DEF BacksUp
  <2>7. CASE Stages BY <2>7 DEF Stages
  <2>8. CASE SwapsOut BY <2>8 DEF SwapsOut
  <2>9. CASE MovesIn BY <2>9 DEF MovesIn
  <2>10. CASE Tidies BY <2>10 DEF Tidies
  <2>11. CASE Undoes BY <2>11 DEF Undoes
  <2>12. CASE PutsBack BY <2>12 DEF PutsBack
  <2>13. CASE Restores BY <2>13 DEF Restores
  <2>14. CASE RollbackStarts BY <2>14 DEF RollbackStarts, Latest
  <2>15. CASE RollsBackOut BY <2>15 DEF RollsBackOut
  <2>16. CASE CopiesBack BY <2>16 DEF CopiesBack
  <2>17. CASE Restart BY <2>17 DEF Restart
  <2>18. CASE UNCHANGED vars BY <2>18 DEF vars
  <2> QED BY <2>1, <2>2, <2>3, <2>4, <2>5, <2>6, <2>7, <2>8, <2>9,
             <2>10, <2>11, <2>12, <2>13, <2>14, <2>15, <2>16, <2>17, <2>18 DEF Next, ApplyStep, RollbackStep
<1> QED BY <1>1, <1>2, UpdateTypeCorrect, PTL DEF Spec

\* The release that a call started from is never destroyed before another whole copy
\* of it exists, whatever operation raises and wherever the process dies.
THEOREM SourceAlwaysSurvives == Spec => []SourceSurvives
<1>1. TypeOK /\ SourceInv => SourceSurvives
  BY UpdateAssumption DEF TypeOK, ApplySteps, SourceInv, SourceSurvives, Places, Builds
<1> QED BY <1>1, SourceKept, UpdateTypeCorrect, PTL

-----------------------------------------------------------------------------
\* A build with a genuine signature, or none.
Genuine(t) == t # None => t.build.signed

\* Signatures follow every build from its verification to every copy of it.
SignedInv ==
    /\ Genuine(install) /\ Genuine(old) /\ Genuine(staging) /\ Genuine(source)
    /\ \A v \in Versions : Genuine(backup[v])
    /\ record # None => record.signed
    /\ pc \in ApplySteps => target.signed

\* What is left of a genuine release is genuine.
LEMMA RemainsGenuine ==
    ASSUME NEW t \in MaybeTrees, Genuine(t),
           NEW r \in HalfRemoved(t) \cup HalfCopied(t)
    PROVE  Genuine(r)
BY RemainsSigned DEF Genuine

\* Only builds with a genuine signature are ever on disk, although the archive may be
\* replaced at any time between its verification and its application.
THEOREM OnlySignedEver == Spec => []OnlySignedOnDisk
<1>1. Init => SignedInv
  BY UpdateAssumption DEF Init, SignedInv, Genuine, Original, ApplySteps
<1>2. TypeOK /\ SignedInv /\ [Next]_vars => SignedInv'
  <2> SUFFICES ASSUME TypeOK, SignedInv, [Next]_vars PROVE SignedInv'
    OBVIOUS
  <2> USE UpdateAssumption, RemainsGenuine DEF TypeOK, ApplySteps, SignedInv, trees, input, count, call, Then, Answers, Dies, Caught, Escapes
  <2>1. CASE Download BY <2>1 DEF Download
  <2>2. CASE Confirm BY <2>2 DEF Confirm
  <2>3. CASE TokenExpires BY <2>3 DEF TokenExpires
  <2>4. CASE ApplyStarts BY <2>4 DEF ApplyStarts, Verified
  <2>5. CASE Clears BY <2>5 DEF Clears, Genuine
  <2>6. CASE BacksUp BY <2>6 DEF BacksUp
  <2>7. CASE Stages
    <3> DEFINE fresh == [build |-> target, whole |-> TRUE, at |-> calls]
    <3>1. target \in Builds /\ fresh \in MaybeTrees
      BY <2>7 DEF Stages, MaybeTrees, Trees
    <3>2. staging' \in HalfCopied(fresh) \cup {fresh}
      BY <2>7 DEF Stages
    <3>3. Genuine(fresh)
      BY <2>7 DEF Stages, Genuine
    <3> HIDE DEF fresh
    <3>4. Genuine(staging')
      BY <3>1, <3>2, <3>3
    <3> QED BY <2>7, <3>4 DEF Stages
  <2>8. CASE SwapsOut BY <2>8 DEF SwapsOut, Genuine
  <2>9. CASE MovesIn BY <2>9 DEF MovesIn, Genuine
  <2>10. CASE Tidies BY <2>10 DEF Tidies
  <2>11. CASE Undoes BY <2>11 DEF Undoes
  <2>12. CASE PutsBack BY <2>12 DEF PutsBack, Genuine
  <2>13. CASE Restores
    <3>1. target \in Builds /\ target.v \in Versions
      BY <2>13 DEF Restores, Builds
    <3>2. backup[target.v] \in MaybeTrees /\ Genuine(backup[target.v])
      BY <3>1
    <3>3. install' = install \/ install' = backup[target.v] \/ install' \in HalfCopied(backup[target.v])
      BY <2>13 DEF Restores
    <3>4. Genuine(install')
      BY <3>2, <3>3
    <3> QED BY <2>13, <3>4 DEF Restores
  <2>14. CASE RollbackStarts BY <2>14 DEF RollbackStarts, Latest
  <2>15. CASE RollsBackOut BY <2>15 DEF RollsBackOut
  <2>16. CASE CopiesBack BY <2>16 DEF CopiesBack
  <2>17. CASE Restart BY <2>17 DEF Restart
  <2>18. CASE UNCHANGED vars BY <2>18 DEF vars
  <2> QED BY <2>1, <2>2, <2>3, <2>4, <2>5, <2>6, <2>7, <2>8, <2>9,
             <2>10, <2>11, <2>12, <2>13, <2>14, <2>15, <2>16, <2>17, <2>18 DEF Next, ApplyStep, RollbackStep
<1>3. SignedInv => OnlySignedOnDisk
  BY DEF SignedInv, OnlySignedOnDisk, Genuine, Places
<1> QED BY <1>1, <1>2, <1>3, UpdateTypeCorrect, PTL DEF Spec

-----------------------------------------------------------------------------
\* What is staged, and then installed, is the whole of the target.
AppliedInv ==
    /\ pc # "idle" => reply = "none"
    /\ pc \in {"swap", "move"} => staging # None /\ staging.build = target /\ staging.whole
    /\ pc = "tidy" => install # None /\ install.build = target /\ install.whole
    /\ AppliedMeansInstalled

\* A call that reports the update as applied leaves the whole new release installed and
\* the release it replaced as the backup of that version.
THEOREM AppliedIsInstalled == Spec => []AppliedMeansInstalled
<1>1. Init => AppliedInv
  BY DEF Init, AppliedInv, AppliedMeansInstalled
<1>2. TypeOK /\ SourceInv /\ AppliedInv /\ [Next]_vars => AppliedInv'
  <2> SUFFICES ASSUME TypeOK, SourceInv, AppliedInv, [Next]_vars PROVE AppliedInv'
    OBVIOUS
  <2> USE UpdateAssumption DEF TypeOK, ApplySteps, SourceInv, AppliedInv, AppliedMeansInstalled, trees, input, count, call, Then, Answers, Dies, Caught, Escapes
  <2>1. CASE Download BY <2>1 DEF Download
  <2>2. CASE Confirm BY <2>2 DEF Confirm
  <2>3. CASE TokenExpires BY <2>3 DEF TokenExpires
  <2>4. CASE ApplyStarts BY <2>4 DEF ApplyStarts
  <2>5. CASE Clears BY <2>5 DEF Clears
  <2>6. CASE BacksUp BY <2>6 DEF BacksUp
  <2>7. CASE Stages
    <3> DEFINE fresh == [build |-> target, whole |-> TRUE, at |-> calls]
    <3>0. fresh \in Trees
      BY <2>7 DEF Stages, Trees
    <3>1. fresh # None
      BY <3>0, NoneIsNoTree
    <3>2. /\ reply' = reply
          /\ (staging' = fresh /\ pc' = "swap") \/ pc' \in {"undo", "down"}
      BY <2>7 DEF Stages
    <3>3. fresh.build = target /\ fresh.whole
      OBVIOUS
    <3>4. pc = "stage" /\ UNCHANGED <<install, target, source, backup>>
      BY <2>7 DEF Stages
    <3> HIDE DEF fresh
    <3> QED BY <3>1, <3>2, <3>3, <3>4
  <2>8. CASE SwapsOut BY <2>8 DEF SwapsOut
  <2>9. CASE MovesIn BY <2>9 DEF MovesIn
  <2>10. CASE Tidies BY <2>10 DEF Tidies
  <2>11. CASE Undoes BY <2>11 DEF Undoes
  <2>12. CASE PutsBack BY <2>12 DEF PutsBack
  <2>13. CASE Restores BY <2>13 DEF Restores
  <2>14. CASE RollbackStarts BY <2>14 DEF RollbackStarts
  <2>15. CASE RollsBackOut BY <2>15 DEF RollsBackOut
  <2>16. CASE CopiesBack BY <2>16 DEF CopiesBack
  <2>17. CASE Restart BY <2>17 DEF Restart
  <2>18. CASE UNCHANGED vars BY <2>18 DEF vars
  <2> QED BY <2>1, <2>2, <2>3, <2>4, <2>5, <2>6, <2>7, <2>8, <2>9,
             <2>10, <2>11, <2>12, <2>13, <2>14, <2>15, <2>16, <2>17, <2>18 DEF Next, ApplyStep, RollbackStep
<1> QED BY <1>1, <1>2, SourceKept, UpdateTypeCorrect, PTL DEF Spec, AppliedInv

-----------------------------------------------------------------------------
\* While an update is undone, the release to restore is in old, or is the backup.
UndoInv ==
    /\ pc # "idle" => reply = "none"
    /\ pc \in ApplySteps \ {"clear", "backup"} => source # None
    /\ pc \in {"backup", "stage", "swap"} => old = None
    /\ pc \in {"move", "tidy"} => old = source
    /\ pc \in {"undo", "putBack"} => old \in {None, source}
    /\ pc = "putBack" /\ leftover = None => install = None
    /\ pc = "restore" /\ leftover = None => install \in {None, source}
    /\ UndoneMeansRestored

\* If nothing was left of what it removed, a call that reports the update as rolled back
\* has left the installation as it found it.
THEOREM UndoneIsRestored == Spec => []UndoneMeansRestored
<1>1. Init => UndoInv
  BY DEF Init, UndoInv, UndoneMeansRestored, ApplySteps
<1>2. TypeOK /\ SourceInv /\ UndoInv /\ [Next]_vars => UndoInv'
  <2> SUFFICES ASSUME TypeOK, SourceInv, UndoInv, [Next]_vars PROVE UndoInv'
    OBVIOUS
  <2> USE UpdateAssumption DEF TypeOK, ApplySteps, SourceInv, UndoInv, UndoneMeansRestored, trees, input, count, call, Then, Answers, Dies, Caught, Escapes
  <2>1. CASE Download BY <2>1 DEF Download
  <2>2. CASE Confirm BY <2>2 DEF Confirm
  <2>3. CASE TokenExpires BY <2>3 DEF TokenExpires
  <2>4. CASE ApplyStarts BY <2>4 DEF ApplyStarts
  <2>5. CASE Clears BY <2>5 DEF Clears
  <2>6. CASE BacksUp BY <2>6 DEF BacksUp
  <2>7. CASE Stages BY <2>7 DEF Stages
  <2>8. CASE SwapsOut BY <2>8 DEF SwapsOut
  <2>9. CASE MovesIn BY <2>9 DEF MovesIn
  <2>10. CASE Tidies BY <2>10 DEF Tidies
  <2>11. CASE Undoes BY <2>11 DEF Undoes
  <2>12. CASE PutsBack BY <2>12 DEF PutsBack
  <2>13. CASE Restores BY <2>13 DEF Restores
  <2>14. CASE RollbackStarts BY <2>14 DEF RollbackStarts
  <2>15. CASE RollsBackOut BY <2>15 DEF RollsBackOut
  <2>16. CASE CopiesBack BY <2>16 DEF CopiesBack
  <2>17. CASE Restart BY <2>17 DEF Restart
  <2>18. CASE UNCHANGED vars BY <2>18 DEF vars
  <2> QED BY <2>1, <2>2, <2>3, <2>4, <2>5, <2>6, <2>7, <2>8, <2>9,
             <2>10, <2>11, <2>12, <2>13, <2>14, <2>15, <2>16, <2>17, <2>18 DEF Next, ApplyStep, RollbackStep
<1> QED BY <1>1, <1>2, SourceKept, UpdateTypeCorrect, PTL DEF Spec, UndoInv
=============================================================================
