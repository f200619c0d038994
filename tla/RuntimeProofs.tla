--------------------------- MODULE RuntimeProofs ---------------------------
(***************************************************************************)
(* The runtime file, for any number of concurrent saves and any keys.      *)
(***************************************************************************)
EXTENDS RuntimeFile, TLAPS

\* A save that has run alone so far is the only one; while it writes, the temporary
\* file holds nothing but what it truncated, so what it writes is complete.
Alone(s) ==
  save[s].alone => /\ UnderWay(s)
                   /\ \A r \in Saves \ {s} : ~ UnderWay(r)
                   /\ save[s].key \in Keys
                   /\ save[s].pc = "write" => tmp = Empty

RuntimeInv ==
  /\ RuntimeTypeOK
  /\ \A s \in Saves : Alone(s)
  /\ NextKeyIsReady
  /\ KeySurvives

\* One step per action: the types.
LEMMA RuntimeNextType ==
  ASSUME RuntimeTypeOK, [RuntimeNext]_runtimeVars
  PROVE  RuntimeTypeOK'
<1> USE RuntimeAssumption DEF RuntimeTypeOK, Contents
<1>1. Idle \in [pc : {"idle", "open", "write", "remove", "rename"},
                key : Keys \cup {None}, alone : BOOLEAN]
  BY DEF Idle
<1>2. CASE Start
  BY <1>2 DEF Start
<1>3. CASE End
  BY <1>1, <1>3 DEF End
<1>4. ASSUME NEW s \in Saves, Submit(s)
      PROVE  RuntimeTypeOK'
  <2> DEFINE after(key) == [r \in Saves |->
                 IF r = s THEN [pc |-> "open", key |-> key, alone |-> \A q \in Saves : ~ UnderWay(q)]
                 ELSE [save[r] EXCEPT !.alone = FALSE]]
  <2>1. PICK key \in Keys : save' = after(key)
    BY <1>4 DEF Submit
  <2>2. ASSUME NEW r \in Saves, r # s
        PROVE  [save[r] EXCEPT !.alone = FALSE]
                 \in [pc : {"idle", "open", "write", "remove", "rename"},
                     key : Keys \cup {None}, alone : BOOLEAN]
    OBVIOUS
  <2>3. (\A q \in Saves : ~ UnderWay(q)) \in BOOLEAN
    OBVIOUS
  <2>4. [pc |-> "open", key |-> key, alone |-> \A q \in Saves : ~ UnderWay(q)]
          \in [pc : {"idle", "open", "write", "remove", "rename"},
              key : Keys \cup {None}, alone : BOOLEAN]
    BY <2>3
  <2>5. save' \in [Saves -> [pc : {"idle", "open", "write", "remove", "rename"},
                             key : Keys \cup {None}, alone : BOOLEAN]]
    BY <2>1, <2>2, <2>4
  <2>6. QED
    BY <1>4, <2>5 DEF Submit
<1>5. ASSUME NEW s \in Saves, OpenTmp(s) \/ WriteTmp(s) \/ RemoveFile(s)
      PROVE  RuntimeTypeOK'
  <2>1. CASE OpenTmp(s)
    BY <2>1 DEF OpenTmp, Step
  <2>2. CASE WriteTmp(s)
    BY <2>2 DEF WriteTmp, Step
  <2>3. CASE RemoveFile(s)
    BY <2>3 DEF RemoveFile, Step
  <2>4. QED
    BY <1>5, <2>1, <2>2, <2>3
<1>6. ASSUME NEW s \in Saves, WriteFails(s) \/ RemoveFails(s) \/ RenameTmp(s) \/ RenameFails(s)
      PROVE  RuntimeTypeOK'
  <2>1. save' \in [Saves -> [pc : {"idle", "open", "write", "remove", "rename"},
                             key : Keys \cup {None}, alone : BOOLEAN]]
    BY <1>1, <1>6 DEF WriteFails, RemoveFails, RenameTmp, RenameFails, Answer
  <2>2. QED
    BY <1>6, <2>1 DEF WriteFails, RemoveFails, RenameTmp, RenameFails
<1>7. CASE UNCHANGED runtimeVars
  BY <1>7 DEF runtimeVars
<1>8. QED
  BY <1>2, <1>3, <1>4, <1>5, <1>6, <1>7 DEF RuntimeNext, SaveStep

\* Type correctness, whatever saves, faults and crashes do to the two files.
THEOREM RuntimeTypeCorrect == RuntimeSpec => []RuntimeTypeOK
<1>1. RuntimeInit => RuntimeTypeOK
  <2> SUFFICES ASSUME RuntimeInit
               PROVE  RuntimeTypeOK
    OBVIOUS
  <2>1. Idle \in [pc : {"idle", "open", "write", "remove", "rename"},
                  key : Keys \cup {None}, alone : BOOLEAN]
    BY DEF Idle
  <2>2. QED
    BY <2>1 DEF RuntimeInit, RuntimeTypeOK, Contents
<1>2. RuntimeTypeOK /\ [RuntimeNext]_runtimeVars => RuntimeTypeOK'
  BY RuntimeNextType
<1>3. QED
  BY <1>1, <1>2, PTL DEF RuntimeSpec

-----------------------------------------------------------------------------
(* The invariant *)

Ready(s) == save[s].alone /\ save[s].pc \in {"remove", "rename"} => tmp = save[s].key

\* A save that is under way leaves no other alone, so a step of it concerns only its
\* own part of the invariant.
LEMMA OthersAreNotAlone ==
  ASSUME RuntimeInv, NEW s \in Saves, UnderWay(s), NEW r \in Saves, r # s, save'[r] = save[r]
  PROVE  Alone(r)' /\ Ready(r)'
<1>1. ~ save[r].alone
  BY DEF RuntimeInv, Alone
<1>2. QED
  BY <1>1 DEF Alone, Ready

\* The parts of a save's own step.
LEMMA OwnStep ==
  ASSUME RuntimeInv, NEW s \in Saves, UnderWay(s), SaveStep(s)
  PROVE  Alone(s)' /\ Ready(s)' /\ KeySurvives'
<1>1. /\ RuntimeTypeOK /\ Alone(s) /\ Ready(s) /\ KeySurvives
      /\ save \in [Saves -> [pc : {"idle", "open", "write", "remove", "rename"},
                             key : Keys \cup {None}, alone : BOOLEAN]]
  BY DEF RuntimeInv, RuntimeTypeOK, NextKeyIsReady, Ready
<1>2. ASSUME save' = [save EXCEPT ![s] = Idle]
      PROVE  Alone(s)' /\ Ready(s)'
  BY <1>1, <1>2 DEF Alone, Ready, Idle
<1>3. CASE OpenTmp(s)
  <2>1. /\ save'[s].pc = "write" /\ save'[s].key = save[s].key /\ save'[s].alone = save[s].alone
        /\ \A r \in Saves \ {s} : save'[r] = save[r]
        /\ tmp' = Empty /\ UNCHANGED <<file, last, risk>>
    BY <1>1, <1>3 DEF OpenTmp, Step
  <2>2. QED
    BY <1>1, <2>1 DEF Alone, Ready, KeySurvives, UnderWay
<1>4. CASE WriteTmp(s)
  <2>1. /\ save'[s].pc = "remove" /\ save'[s].key = save[s].key /\ save'[s].alone = save[s].alone
        /\ \A r \in Saves \ {s} : save'[r] = save[r]
        /\ save[s].alone => tmp' = save[s].key
        /\ UNCHANGED <<file, last, risk>>
    BY <1>1, <1>4 DEF WriteTmp, Step, Alone
  <2>2. QED
    BY <1>1, <2>1 DEF Alone, Ready, KeySurvives, UnderWay
<1>5. CASE RemoveFile(s)
  <2>1. /\ save'[s].pc = "rename" /\ save'[s].key = save[s].key /\ save'[s].alone = save[s].alone
        /\ \A r \in Saves \ {s} : save'[r] = save[r]
        /\ save[s].pc = "remove" /\ tmp' = tmp /\ risk' = TRUE
    BY <1>1, <1>5 DEF RemoveFile, Step
  <2>2. QED
    BY <1>1, <2>1 DEF Alone, Ready, KeySurvives, UnderWay
<1>6. CASE RenameTmp(s)
  <2>1. /\ save' = [save EXCEPT ![s] = Idle] /\ save[s].pc = "rename"
        /\ file' = tmp /\ last' = save[s].key /\ risk' = ~ save[s].alone
    BY <1>6 DEF RenameTmp, Answer
  <2>2. save[s].alone => tmp = save[s].key
    BY <1>1, <2>1 DEF Ready
  <2>3. KeySurvives'
    BY <2>1, <2>2 DEF KeySurvives
  <2>4. QED
    BY <1>2, <2>1, <2>3
<1>7. CASE WriteFails(s) \/ RemoveFails(s) \/ RenameFails(s)
  <2>1. save' = [save EXCEPT ![s] = Idle] /\ UNCHANGED <<file, last, risk>>
    BY <1>7 DEF WriteFails, RemoveFails, RenameFails, Answer
  <2>2. QED
    BY <1>1, <1>2, <2>1 DEF KeySurvives
<1>8. CASE Submit(s)
  BY <1>8 DEF Submit
<1>9. QED
  BY <1>3, <1>4, <1>5, <1>6, <1>7, <1>8 DEF SaveStep

LEMMA RuntimeInvNext ==
  ASSUME RuntimeInv, [RuntimeNext]_runtimeVars
  PROVE  RuntimeInv'
<1>1. RuntimeTypeOK'
  BY RuntimeNextType DEF RuntimeInv
<1>2. /\ save \in [Saves -> [pc : {"idle", "open", "write", "remove", "rename"},
                             key : Keys \cup {None}, alone : BOOLEAN]]
      /\ KeySurvives
  BY DEF RuntimeInv, RuntimeTypeOK
<1>3. ASSUME NEW s \in Saves, SaveStep(s), UnderWay(s)
      PROVE  RuntimeInv'
  <2>1. \A r \in Saves \ {s} : save'[r] = save[r]
    BY <1>2, <1>3 DEF SaveStep, Submit, OpenTmp, WriteTmp, WriteFails, RemoveFile, RemoveFails,
      RenameTmp, RenameFails, Step, Answer
  <2>2. \A r \in Saves : Alone(r)' /\ Ready(r)'
    BY <1>3, <2>1, OthersAreNotAlone, OwnStep
  <2>3. KeySurvives'
    BY <1>3, OwnStep
  <2>4. QED
    BY <1>1, <2>2, <2>3 DEF RuntimeInv, NextKeyIsReady, Ready
<1>4. ASSUME NEW s \in Saves, SaveStep(s), ~ UnderWay(s)
      PROVE  RuntimeInv'
  <2>1. Submit(s)
    BY <1>4 DEF SaveStep, OpenTmp, WriteTmp, WriteFails, RemoveFile, RemoveFails, RenameTmp,
      RenameFails, UnderWay
  <2>2. PICK key \in Keys :
          save' = [r \in Saves |->
                     IF r = s THEN [pc |-> "open", key |-> key, alone |-> \A q \in Saves : ~ UnderWay(q)]
                     ELSE [save[r] EXCEPT !.alone = FALSE]]
    BY <2>1 DEF Submit
  <2>3. \A r \in Saves \ {s} : save'[r].alone = FALSE /\ save'[r].pc = save[r].pc
    BY <1>2, <2>2
  <2>4. /\ save'[s].pc = "open" /\ save'[s].key = key
        /\ save'[s].alone = \A q \in Saves : ~ UnderWay(q)
    BY <2>2
  <2>5. Alone(s)' /\ Ready(s)'
    BY <2>3, <2>4 DEF Alone, Ready, UnderWay
  <2>6. \A r \in Saves : Alone(r)' /\ Ready(r)'
    BY <2>3, <2>5 DEF Alone, Ready
  <2>7. KeySurvives'
    BY <1>2, <2>1 DEF Submit, KeySurvives
  <2>8. QED
    BY <1>1, <2>6, <2>7 DEF RuntimeInv, NextKeyIsReady, Ready
<1>5. CASE Start \/ UNCHANGED runtimeVars
  <2>1. UNCHANGED <<file, tmp, save, last, risk>>
    BY <1>5 DEF Start, runtimeVars
  <2>2. QED
    BY <1>1, <2>1 DEF RuntimeInv, Alone, NextKeyIsReady, KeySurvives, UnderWay
<1>6. CASE End
  <2>1. \A s \in Saves : save'[s].alone = FALSE
    BY <1>6 DEF End, Idle
  <2>2. UNCHANGED <<file, last, risk>>
    BY <1>6 DEF End
  <2>3. QED
    BY <1>1, <1>2, <2>1, <2>2 DEF RuntimeInv, Alone, NextKeyIsReady, KeySurvives
<1>7. QED
  BY <1>3, <1>4, <1>5, <1>6 DEF RuntimeNext

LEMMA RuntimeInvAlways == RuntimeSpec => []RuntimeInv
<1>1. RuntimeInit => RuntimeInv
  <2> SUFFICES ASSUME RuntimeInit
               PROVE  RuntimeInv
    OBVIOUS
  <2>1. RuntimeTypeOK
    <3>1. Idle \in [pc : {"idle", "open", "write", "remove", "rename"},
                    key : Keys \cup {None}, alone : BOOLEAN]
      BY DEF Idle
    <3>2. QED
      BY <3>1 DEF RuntimeInit, RuntimeTypeOK, Contents
  <2>2. \A s \in Saves : save[s].alone = FALSE
    BY DEF RuntimeInit, Idle
  <2>3. QED
    BY <2>1, <2>2 DEF RuntimeInit, RuntimeInv, Alone, NextKeyIsReady, KeySurvives
<1>2. RuntimeInv /\ [RuntimeNext]_runtimeVars => RuntimeInv'
  BY RuntimeInvNext
<1>3. QED
  BY <1>1, <1>2, PTL DEF RuntimeSpec

\* Whatever number of saves interleave, fail or are cut off: the last key that was
\* saved is in runtime.json, unless a save has got as far as removing the file and
\* none that ran alone has succeeded since (SaveRuntimeFile).
THEOREM KeySurvivesHolds == RuntimeSpec => []KeySurvives
<1>1. RuntimeInv => KeySurvives
  BY DEF RuntimeInv
<1>2. QED
  BY <1>1, RuntimeInvAlways, PTL

\* Between the removal and the renaming the new key is complete in the temporary
\* file, as long as no other save began (WriteFile before Remove before Rename).
THEOREM NextKeyIsReadyHolds == RuntimeSpec => []NextKeyIsReady
<1>1. RuntimeInv => NextKeyIsReady
  BY DEF RuntimeInv
<1>2. QED
  BY <1>1, RuntimeInvAlways, PTL
=============================================================================
